---------------------------- MODULE Spec2Model ----------------------------
(***************************************************************************)
(* Model of the invoice test-case generator (shared/generator.ts with      *)
(* shared/suppliers.ts): generateTestSuite, the per-case-type transaction  *)
(* policy, the group-payment aggregator and the CSV serializer.            *)
(*                                                                         *)
(* Representation.                                                         *)
(*  - A string is a string; its characters are read with SubSeq, so that   *)
(*    template literals, padStart, split and join are computed.            *)
(*  - A money amount (a JS number with two decimals) is an integer number  *)
(*    of cents; a 2-decimal factor is an integer number of hundredths.     *)
(*    Number.prototype.toFixed is computed on the exact product; where the *)
(*    exact value lies half-way between two cents the binary double lies   *)
(*    on either side, and both neighbours are outcomes.                    *)
(*  - A Date is a whole number of days since 1970-01-01: every Date of the *)
(*    generator is midnight UTC of a calendar day, and the worker runtime  *)
(*    has local time zone UTC.                                             *)
(*  - Math.random() and faker's draws are values r/1000 with r taken from  *)
(*    a sample set named per call site by a record rnd; randomBetween and  *)
(*    randomFloat compute their result from r as the code does.  An        *)
(*    operator that models a randomized function yields the set of its     *)
(*    possible results.                                                    *)
(***************************************************************************)
EXTENDS Integers, Sequences, FiniteSets, TLC

VARIABLES
    configs,          \* generateTestSuite argument: sequence of [type, quantity]
    direction,        \* generateTestSuite argument: "payables" | "receivables"
    dateRange,        \* generateTestSuite argument: [start, end], date strings
    companyOverrides, \* generateTestSuite argument: partial Company record
    pc,               \* position in generateTestSuite: "start" | "loop" | "done"
    ci,               \* index of the current config (outer for loop)
    qi,               \* inner loop counter i
    invoiceSequence,  \* let invoiceSequence
    testCases,        \* const testCases: TestCase[]
    csvContent,       \* csvContent of the returned suite ("" before the return)
    body,             \* POST /api/generate: the request body
    response,         \* POST /api/generate: the response, [status, ...]
    callArgs,         \* arguments of a function applied on its own
    callResult,       \* its result
    calls             \* two calls of generateTestSuite in progress: the arguments and
                      \* the local variables of each

vars == <<configs, direction, dateRange, companyOverrides, pc, ci, qi, invoiceSequence,
          testCases, csvContent, body, response, callArgs, callResult, calls>>

-----------------------------------------------------------------------------
(* Bounds of the explored inputs *)

\* Largest number of (type, quantity) configs in a multi-config request.
MaxConfigs == 2

\* Largest quantity of one config in a multi-config request.
MaxQuantity == 2

\* Largest number of units in a request that mixes simple and group units.
MaxUnits == 4

\* Invoices of the largest run whose invoice numbers are formed.
MaxInvoices == 9002

\* Days of the longest date range in which an invoice is generated on its own.
MaxRangeDays == 3

\* Items of the longest item list whose totals are calculated on its own.
MaxItems == 2

\* Units of the longest request of two requests handled together.
MaxCallUnits == 2

-----------------------------------------------------------------------------
(* Text *)

Min(a, b) == IF a < b THEN a ELSE b

Abs(n) == IF n < 0 THEN -n ELSE n

\* String.prototype.charAt, counted from 1.
charAt(s, i) == SubSeq(s, i, i)

DIGITS == "0123456789"

LOWER == "abcdefghijklmnopqrstuvwxyz"

UPPER == "ABCDEFGHIJKLMNOPQRSTUVWXYZ"

\* String.prototype.indexOf of a character, counted from 1; 0 when absent.
indexOf(s, c) ==
    IF \E k \in 1..Len(s) : charAt(s, k) = c
    THEN CHOOSE k \in 1..Len(s) : charAt(s, k) = c /\ \A j \in 1..(k - 1) : charAt(s, j) # c
    ELSE 0

isLower(c) == indexOf(LOWER, c) > 0

isUpper(c) == indexOf(UPPER, c) > 0

isDigit(c) == indexOf(DIGITS, c) > 0

isSpace(c) == c = " "

\* Number.prototype.toString of a non-negative integer.
RECURSIVE NatToString(_)
NatToString(n) ==
    IF n < 10 THEN charAt(DIGITS, n + 1)
    ELSE NatToString(n \div 10) \o charAt(DIGITS, (n % 10) + 1)

\* String.prototype.padStart(targetLength, padChar).
RECURSIVE padStart(_, _, _)
padStart(s, targetLength, padChar) ==
    IF Len(s) >= targetLength THEN s
    ELSE padStart(padChar \o s, targetLength, padChar)

\* Array.prototype.join(separator) on an array of strings.
RECURSIVE join(_, _)
join(parts, separator) ==
    IF Len(parts) = 0 THEN ""
    ELSE IF Len(parts) = 1 THEN parts[1]
    ELSE parts[1] \o separator \o join(Tail(parts), separator)

\* The text of s before the first separator character (all of s without one).
RECURSIVE splitFirst(_, _)
splitFirst(s, separator) ==
    IF Len(s) = 0 \/ Head(s) = separator THEN ""
    ELSE Head(s) \o splitFirst(Tail(s), separator)

\* String.prototype.split(separator) for a one-character separator.
RECURSIVE split(_, _)
split(s, separator) ==
    LET first == splitFirst(s, separator)
    IN  IF Len(first) = Len(s) THEN <<first>>
        ELSE <<first>> \o split(SubSeq(s, Len(first) + 2, Len(s)), separator)

\* String.prototype.toUpperCase
RECURSIVE toUpperCase(_)
toUpperCase(s) ==
    IF Len(s) = 0 THEN ""
    ELSE (IF isLower(Head(s)) THEN charAt(UPPER, indexOf(LOWER, Head(s))) ELSE Head(s))
         \o toUpperCase(Tail(s))

\* String.prototype.toLowerCase
RECURSIVE toLowerCase(_)
toLowerCase(s) ==
    IF Len(s) = 0 THEN ""
    ELSE (IF isUpper(Head(s)) THEN charAt(LOWER, indexOf(UPPER, Head(s))) ELSE Head(s))
         \o toLowerCase(Tail(s))

\* String.prototype.trim
RECURSIVE trim(_)
trim(s) ==
    IF Len(s) = 0 THEN s
    ELSE IF isSpace(Head(s)) THEN trim(Tail(s))
    ELSE IF isSpace(charAt(s, Len(s))) THEN trim(SubSeq(s, 1, Len(s) - 1))
    ELSE s

\* Template-literal conversion `${n}` of a money amount held in cents:
\* the shortest decimal form (9800 for 9800.00, 24.5 for 24.50).
numberToString(cents) ==
    LET mag   == Abs(cents)
        whole == NatToString(mag \div 100)
        frac  == mag % 100
        tail  == IF frac = 0 THEN ""
                 ELSE IF frac % 10 = 0 THEN "." \o NatToString(frac \div 10)
                 ELSE "." \o padStart(NatToString(frac), 2, "0")
    IN  (IF cents < 0 THEN "-" ELSE "") \o whole \o tail

\* The order of the characters of a date string under localeCompare:
\* "-" before the digits, the digits by value.
charRank(c) == IF c = "-" THEN 0 ELSE indexOf(DIGITS, c)

\* String.prototype.localeCompare on date strings: -1, 0 or 1.
RECURSIVE localeCompare(_, _)
localeCompare(a, b) ==
    IF Len(a) = 0 /\ Len(b) = 0 THEN 0
    ELSE IF Len(a) = 0 THEN -1
    ELSE IF Len(b) = 0 THEN 1
    ELSE IF charRank(Head(a)) < charRank(Head(b)) THEN -1
    ELSE IF charRank(Head(a)) > charRank(Head(b)) THEN 1
    ELSE localeCompare(Tail(a), Tail(b))

-----------------------------------------------------------------------------
(* Numbers *)

\* A variant of toFixed2 that truncates instead of rounding; the rounding
\* property DiscountPolicy must fail with it.
toFixedTruncated(num, den) ==
    {(IF num < 0 THEN -1 ELSE 1) * (Abs(num) \div den)}

\* Number.prototype.toFixed(2) followed by parseFloat, of the exact value
\* num/den cents (den > 0): the cents nearest to it.  The double of an exact
\* decimal tie lies on either side of the tie, so both neighbouring cents
\* are possible there.
toFixed2(num, den) ==
    LET mag  == Abs(num)
        lo   == mag \div den
        rem2 == 2 * (mag % den)
        sgn  == IF num < 0 THEN -1 ELSE 1
    IN  IF rem2 < den THEN {sgn * lo}
        ELSE IF rem2 > den THEN {sgn * (lo + 1)}
        ELSE {sgn * lo, sgn * (lo + 1)}

\* A variant of randomBetween that rounds to the nearest integer instead of
\* flooring, so that it can return max + 1; IssueAndDueDatesInRange must fail
\* with it.
randomBetweenRounded(R, min, max) ==
    { ((2 * r * (max - min + 1) + 1000) \div 2000) + min : r \in R }

\* Math.floor(Math.random() * (max - min + 1)) + min, for Math.random() = r/1000.
randomBetween(R, min, max) ==
    { ((r * (max - min + 1)) \div 1000) + min : r \in R }

\* parseFloat((Math.random() * (max - min) + min).toFixed(2)), in hundredths,
\* for min and max given in hundredths and Math.random() = r/1000.
randomFloat(R, min, max) ==
    UNION { toFixed2(r * (max - min) + min * 1000, 1000) : r \in R }

\* faker.helpers.arrayElement(array): the element at a uniformly drawn index.
arrayElement(R, array) ==
    { array[((r * Len(array)) \div 1000) + 1] : r \in R }

-----------------------------------------------------------------------------
(* Dates *)

\* The civil date <<year, month, day>> of a day count since 1970-01-01 (UTC).
civilFromDays(z0) ==
    LET z   == z0 + 719468
        era == z \div 146097
        doe == z - era * 146097
        yoe == (doe - (doe \div 1460) + (doe \div 36524) - (doe \div 146096)) \div 365
        doy == doe - (365 * yoe + (yoe \div 4) - (yoe \div 100))
        mp  == (5 * doy + 2) \div 153
        d   == doy - ((153 * mp + 2) \div 5) + 1
        m   == IF mp < 10 THEN mp + 3 ELSE mp - 9
        y   == yoe + era * 400 + (IF m <= 2 THEN 1 ELSE 0)
    IN  <<y, m, d>>

\* The day count since 1970-01-01 of a civil date.
daysFromCivil(y0, m, d) ==
    LET y   == IF m <= 2 THEN y0 - 1 ELSE y0
        era == y \div 400
        yoe == y - era * 400
        doy == ((153 * (IF m > 2 THEN m - 3 ELSE m + 9) + 2) \div 5) + d - 1
        doe == yoe * 365 + (yoe \div 4) - (yoe \div 100) + doy
    IN  era * 146097 + doe - 719468

\* The number written by a string of decimal digits.
RECURSIVE parseDigits(_)
parseDigits(s) ==
    IF Len(s) = 0 THEN 0
    ELSE 10 * parseDigits(SubSeq(s, 1, Len(s) - 1)) + (indexOf(DIGITS, charAt(s, Len(s))) - 1)

\* new Date("YYYY-MM-DD"): midnight UTC of that day.
newDate(s) ==
    LET parts == split(s, "-")
    IN  daysFromCivil(parseDigits(parts[1]), parseDigits(parts[2]), parseDigits(parts[3]))

\* date.toISOString().split('T')[0]
formatDate(date) ==
    LET c == civilFromDays(date)
    IN  padStart(NatToString(c[1]), 4, "0") \o "-"
        \o padStart(NatToString(c[2]), 2, "0") \o "-"
        \o padStart(NatToString(c[3]), 2, "0")

\* result.setDate(result.getDate() + days)
addDays(date, days) == date + days

\* date.getFullYear()
getFullYear(date) == civilFromDays(date)[1]

\* isNaN(new Date(s).getTime()) for a text that is either of the form
\* YYYY-MM-DD or no date at all: new Date gives an Invalid Date for the latter.
isInvalidDate(s) ==
    ~ /\ Len(s) = 10
      /\ \A i \in 1..10 : IF i \in {5, 8} THEN charAt(s, i) = "-" ELSE isDigit(charAt(s, i))

-----------------------------------------------------------------------------
(* Party and name-variation generator (suppliers.ts) *)

EU_COUNTRIES ==
    << [code |-> "DE", suffix |-> <<"GmbH", "AG", "KG">>],
       [code |-> "NL", suffix |-> <<"B.V.", "N.V.">>],
       [code |-> "GB", suffix |-> <<"Ltd", "PLC">>],
       [code |-> "FR", suffix |-> <<"S.A.", "S.A.R.L.", "SAS">>],
       [code |-> "IT", suffix |-> <<"SpA", "S.r.l.">>],
       [code |-> "ES", suffix |-> <<"S.A.", "S.L.">>],
       [code |-> "SE", suffix |-> <<"AB", "AS">>],
       [code |-> "CH", suffix |-> <<"AG", "GmbH", "SA">>],
       [code |-> "BE", suffix |-> <<"S.A.", "N.V.", "SPRL">>],
       [code |-> "AT", suffix |-> <<"GmbH", "AG">>] >>

BUSINESS_PREFIXES ==
    <<"Tech", "Data", "Cloud", "Digital", "Smart", "Euro", "Global", "Pro", "Net", "Sys",
      "Info", "Cyber", "Logic", "Soft", "Web", "Auto", "Bio", "Eco", "Med", "Fin">>

BUSINESS_SUFFIXES ==
    <<"Solutions", "Systems", "Services", "Tech", "Soft", "Pro", "Labs", "Works", "Group",
      "Corp", "Dynamics", "Logic", "Ware", "Net", "Link", "Hub", "Base", "Core", "Wave",
      "Flow">>

BUSINESS_INDUSTRIES ==
    <<"Software", "Consulting", "Logistics", "Marketing", "Finance", "Engineering",
      "Supply", "Print", "Medical", "Office", "Security", "Analytics", "Automation",
      "Integration", "Components">>

\* The first words of the "Industry + descriptor" style.
REGION_WORDS == <<"Nordic", "Euro", "Global", "Prime", "Alpha", "Delta">>

\* faker.person.lastName(): names of faker's locale data, as the code's
\* comment gives them.
LAST_NAMES == <<"Schmidt", "Mueller">>

generateBusinessName(rnd) ==
    UNION { CASE style = 0 ->
                 { p \o s : p \in arrayElement(rnd.word, BUSINESS_PREFIXES),
                            s \in arrayElement(rnd.word, BUSINESS_SUFFIXES) }
              [] style = 1 ->
                 { p \o " " \o s : p \in arrayElement(rnd.word, REGION_WORDS),
                                   s \in arrayElement(rnd.word, BUSINESS_INDUSTRIES) }
              [] style = 2 ->
                 { p \o " " \o s : p \in arrayElement(rnd.word, LAST_NAMES),
                                   s \in arrayElement(rnd.word, BUSINESS_INDUSTRIES) }
              [] OTHER ->
                 { p \o s : p \in arrayElement(rnd.word, BUSINESS_PREFIXES),
                            s \in arrayElement(rnd.word, BUSINESS_INDUSTRIES) }
            : style \in randomBetween(rnd.style, 0, 3) }

\* s.replace(/\./g, '')
RECURSIVE removePeriods(_)
removePeriods(s) ==
    IF Len(s) = 0 THEN ""
    ELSE (IF Head(s) = "." THEN "" ELSE Head(s)) \o removePeriods(Tail(s))

\* baseName.split(/(?=[A-Z])|\s+/).map(w => w[0]).join(''), from index i on:
\* the first character of every piece, a piece starting at the start of the
\* name, at an uppercase letter and after white space.
RECURSIVE initials(_, _)
initials(s, i) ==
    IF i > Len(s) THEN ""
    ELSE (IF /\ ~isSpace(charAt(s, i))
             /\ (i = 1 \/ isUpper(charAt(s, i)) \/ isSpace(charAt(s, i - 1)))
          THEN charAt(s, i) ELSE "")
         \o initials(s, i + 1)

\* baseName.replace(/([a-z])([A-Z])/g, '$1 $2'), from index i on.
RECURSIVE spaceCamelCase(_, _)
spaceCamelCase(s, i) ==
    IF i > Len(s) THEN ""
    ELSE (IF i > 1 /\ isLower(charAt(s, i - 1)) /\ isUpper(charAt(s, i))
          THEN " " \o charAt(s, i) ELSE charAt(s, i))
         \o spaceCamelCase(s, i + 1)

\* [...new Set(variations)]: the first occurrence of each entry, in order.
RECURSIVE removeDuplicates(_)
removeDuplicates(list) ==
    IF Len(list) = 0 THEN <<>>
    ELSE LET init == removeDuplicates(SubSeq(list, 1, Len(list) - 1))
             last == list[Len(list)]
         IN  IF \E k \in 1..Len(init) : init[k] = last THEN init
             ELSE Append(init, last)

\* A variant of generateNameVariations that truncates the base name without
\* uppercasing it; NameVariationsContent must fail with it.
generateNameVariationsTruncatedOnly(baseName, legalSuffix) ==
    LET fullName    == baseName \o " " \o legalSuffix
        abbrev      == toUpperCase(initials(baseName, 1))
        spaced      == spaceCamelCase(baseName, 1)
        cleanSuffix == removePeriods(legalSuffix)
        variations  ==
            <<toUpperCase(fullName), baseName, toUpperCase(baseName)>>
            \o (IF Len(abbrev) >= 2 THEN <<abbrev, abbrev \o " " \o legalSuffix>> ELSE <<>>)
            \o (IF spaced # baseName THEN <<spaced, spaced \o " " \o legalSuffix>> ELSE <<>>)
            \o (IF cleanSuffix # legalSuffix THEN <<baseName \o " " \o cleanSuffix>> ELSE <<>>)
            \o (IF Len(baseName) > 10 THEN <<SubSeq(baseName, 1, 10)>> ELSE <<>>)
    IN  removeDuplicates(variations)

generateNameVariations(baseName, legalSuffix) ==
    LET fullName    == baseName \o " " \o legalSuffix
        abbrev      == toUpperCase(initials(baseName, 1))
        spaced      == spaceCamelCase(baseName, 1)
        cleanSuffix == removePeriods(legalSuffix)
        variations  ==
            <<toUpperCase(fullName), baseName, toUpperCase(baseName)>>
            \o (IF Len(abbrev) >= 2 THEN <<abbrev, abbrev \o " " \o legalSuffix>> ELSE <<>>)
            \o (IF spaced # baseName THEN <<spaced, spaced \o " " \o legalSuffix>> ELSE <<>>)
            \o (IF cleanSuffix # legalSuffix THEN <<baseName \o " " \o cleanSuffix>> ELSE <<>>)
            \o (IF Len(baseName) > 10 THEN <<toUpperCase(SubSeq(baseName, 1, 10))>> ELSE <<>>)
    IN  removeDuplicates(variations)

\* A company carries its name, its country code and its nameVariations; the
\* contact and bank fields of a generated company (address, phone, email,
\* website, bankName, iban, vatId) are faker's free text, which the generator
\* only copies.
generateCompany(rnd) ==
    { [name           |-> baseName \o " " \o legalSuffix,
       country        |-> country.code,
       nameVariations |-> generateNameVariations(baseName, legalSuffix)]
      : <<country, baseName, legalSuffix>> \in
          UNION { {<<c, b, l>> : b \in generateBusinessName(rnd),
                                 l \in arrayElement(rnd.legal, c.suffix)}
                  : c \in arrayElement(rnd.country, EU_COUNTRIES) } }

getRandomSupplier(rnd) == generateCompany(rnd)

\* The legal-suffix alternatives of generateSimpleVariation's pattern.
LEGAL_SUFFIX_TOKENS ==
    <<"GmbH", "Ltd", "AG", "B.V.", "S.A.", "SpA", "KG", "Oy", "AS", "S.L.", "AB", "N.V.",
      "PLC", "S.r.l.", "S.A.R.L.", "SAS", "SPRL">>

\* name.replace(/\s+(GmbH|Ltd|...)$/i, '').trim(): the name without a
\* trailing legal suffix and the white space before it.
stripLegalSuffix(name) ==
    LET Matches(i) ==
            /\ isSpace(charAt(name, i))
            /\ \E j \in (i + 1)..Len(name) :
                 /\ \A k \in i..(j - 1) : isSpace(charAt(name, k))
                 /\ \E t \in 1..Len(LEGAL_SUFFIX_TOKENS) :
                      toLowerCase(SubSeq(name, j, Len(name)))
                        = toLowerCase(LEGAL_SUFFIX_TOKENS[t])
        starts == { i \in 1..Len(name) : Matches(i) }
    IN  IF starts = {} THEN trim(name)
        ELSE trim(SubSeq(name, 1, (CHOOSE i \in starts : \A k \in starts : i <= k) - 1))

generateSimpleVariation(rnd, name) ==
    { CASE variationType = 0 -> toUpperCase(name)
        [] variationType = 1 -> split(name, " ")[1]
        [] variationType = 2 -> stripLegalSuffix(name)
        [] variationType = 3 -> removePeriods(name)
        [] OTHER -> LET words == split(name, " ")
                    IN  join(SubSeq(words, 1, Min(2, Len(words))), " ")
      : variationType \in randomBetween(rnd.simple, 0, 4) }

getRandomNameVariation(rnd, company) ==
    UNION { IF r < 400 THEN {company.name}
            ELSE IF "nameVariations" \in DOMAIN company /\ Len(company.nameVariations) > 0
                 THEN arrayElement(rnd.variation, company.nameVariations)
                 ELSE generateSimpleVariation(rnd, company.name)
            : r \in rnd.useName }

PRODUCTS ==
    << [name |-> "Software License - Enterprise", basePrice |-> 5000],
       [name |-> "Cloud Hosting - Monthly", basePrice |-> 299],
       [name |-> "IT Consulting Services", basePrice |-> 150],
       [name |-> "Hardware Maintenance Contract", basePrice |-> 1200],
       [name |-> "Data Analytics Platform", basePrice |-> 2500],
       [name |-> "Cybersecurity Audit", basePrice |-> 3500],
       [name |-> "API Integration Services", basePrice |-> 800],
       [name |-> "Office Supplies - Bulk Order", basePrice |-> 450],
       [name |-> "Training Workshop (per person)", basePrice |-> 350],
       [name |-> "Technical Support - Annual", basePrice |-> 1800],
       [name |-> "Server Equipment", basePrice |-> 4500],
       [name |-> "Network Infrastructure Setup", basePrice |-> 2800],
       [name |-> "Database Migration Services", basePrice |-> 1500],
       [name |-> "SSL Certificate - Wildcard", basePrice |-> 299],
       [name |-> "Domain Registration (per year)", basePrice |-> 25] >>

\* A generated product's name is made of faker's vocabulary; the model keeps
\* the fixed words of its category's template.
generateProduct(rnd) ==
    UNION { IF r < 700 THEN arrayElement(rnd.product, PRODUCTS)
            ELSE { [name |-> name, basePrice |-> basePrice]
                   : name \in arrayElement(rnd.category,
                        <<"(adjective) (noun) License", "(adjective) (noun) Services",
                          "(adjective) (product)", "(adjective) Office (product)",
                          "(adjective) Support Package">>),
                     basePrice \in randomBetween(rnd.basePrice, 50, 5000) }
            : r \in rnd.catalog }

RECURSIVE getRandomProducts(_, _)
getRandomProducts(rnd, count) ==
    IF count <= 0 THEN {<<>>}
    ELSE { Append(products, product) : products \in getRandomProducts(rnd, count - 1),
                                       product \in generateProduct(rnd) }

GENERIC_DESCRIPTIONS ==
    <<"Payment", "Invoice Payment", "Supplier Payment", "Wire Transfer", "Bank Transfer",
      "Settlement", "Account Settlement", "Payment Order", "SEPA Transfer",
      "International Payment">>

getRandomGenericDescription(rnd) == arrayElement(rnd.generic, GENERIC_DESCRIPTIONS)

-----------------------------------------------------------------------------
(* Invoice synthesizer (generator.ts) *)

DEFAULT_COMPANY ==
    [name     |-> "Acme Corporation GmbH",
     address  |-> "Musterstrasse 123, 10115 Berlin, Germany",
     phone    |-> "+49 30 555 1234",
     email    |-> "accounting@acme-corp.de",
     website  |-> "www.acme-corp.de",
     bankName |-> "Deutsche Bank AG",
     iban     |-> "DE89370400440532013001",
     vatId    |-> "DE987654321"]

generateInvoiceNumber(year, sequence, dir) ==
    LET prefix == IF dir = "receivables" THEN "INV" ELSE "BILL"
    IN  prefix \o "-" \o NatToString(year) \o "-" \o padStart(NatToString(sequence), 4, "0")

\* A variant of itemsOfProduct that draws the quantity from 0 to 10;
\* ItemsWellFormed must fail with it.
itemsOfProductFromZero(rnd, product) ==
    { [name |-> product.name, quantity |-> quantity, price |-> price, tax |-> tax]
      : quantity \in randomBetween(rnd.quantity, 0, 10),
        price \in UNION { toFixed2(product.basePrice * priceVariation, 1)
                          : priceVariation \in randomFloat(rnd.priceVariation, 80, 120) },
        tax \in { IF t = 0 THEN 0 ELSE 19 : t \in randomBetween(rnd.tax, 0, 2) } }

\* The body of generateInvoiceItems' map: the items one product can become,
\* with the price in cents and the tax in percent.
itemsOfProduct(rnd, product) ==
    { [name |-> product.name, quantity |-> quantity, price |-> price, tax |-> tax]
      : quantity \in randomBetween(rnd.quantity, 1, 10),
        price \in UNION { toFixed2(product.basePrice * priceVariation, 1)
                          : priceVariation \in randomFloat(rnd.priceVariation, 80, 120) },
        tax \in { IF t = 0 THEN 0 ELSE 19 : t \in randomBetween(rnd.tax, 0, 2) } }

RECURSIVE mapItems(_, _)
mapItems(rnd, products) ==
    IF Len(products) = 0 THEN {<<>>}
    ELSE { <<item>> \o rest : item \in itemsOfProduct(rnd, Head(products)),
                              rest \in mapItems(rnd, Tail(products)) }

generateInvoiceItems(rnd, itemCount) ==
    UNION { mapItems(rnd, products) : products \in getRandomProducts(rnd, itemCount) }

\* A variant of accumulateTotals that rounds the tax of every item to cents
\* before adding it; TotalsRoundedIndependently must fail with it.
RECURSIVE accumulateTotalsRoundedPerItem(_)
accumulateTotalsRoundedPerItem(items) ==
    IF Len(items) = 0 THEN <<0, 0>>
    ELSE LET rest         == accumulateTotalsRoundedPerItem(SubSeq(items, 1, Len(items) - 1))
             item         == items[Len(items)]
             itemSubtotal == item.quantity * item.price
             itemTax      == ((itemSubtotal * item.tax + 50) \div 100) * 100
         IN  <<rest[1] + itemSubtotal, rest[2] + itemTax>>

\* The loop of calculateInvoiceTotals: <<subtotal, taxTotal>> before rounding,
\* the subtotal in cents and the tax in hundredths of a cent (tax is a percentage).
RECURSIVE accumulateTotals(_)
accumulateTotals(items) ==
    IF Len(items) = 0 THEN <<0, 0>>
    ELSE LET rest         == accumulateTotals(SubSeq(items, 1, Len(items) - 1))
             item         == items[Len(items)]
             itemSubtotal == item.quantity * item.price
             itemTax      == itemSubtotal * item.tax
         IN  <<rest[1] + itemSubtotal, rest[2] + itemTax>>

calculateInvoiceTotals(items) ==
    LET sums     == accumulateTotals(items)
        subtotal == sums[1]
        taxTotal == sums[2]
    IN  { [subtotal |-> s, taxTotal |-> t, total |-> tot]
          : s \in toFixed2(subtotal, 1),
            t \in toFixed2(taxTotal, 100),
            tot \in toFixed2(subtotal * 100 + taxTotal, 100) }

\* range is the parsed date range: start and end as Dates.  The uuid of the
\* invoice is not modelled.
generateInvoice(rnd, range, supplier, customer, sequence, dir) ==
    LET daysDiff == range.end - range.start
        note == IF dir = "receivables"
                THEN "Thank you for your business. Payment due within the specified terms."
                ELSE "Please process payment by the due date. Thank you."
    IN  { [number   |-> generateInvoiceNumber(getFullYear(addDays(range.start, randomDays)),
                                              sequence, dir),
           date     |-> formatDate(addDays(range.start, randomDays)),
           dueDate  |-> formatDate(addDays(addDays(range.start, randomDays), dueDays)),
           supplier |-> supplier,
           customer |-> customer,
           items    |-> items,
           subtotal |-> totals.subtotal,
           taxTotal |-> totals.taxTotal,
           total    |-> totals.total,
           currency |-> "EUR",
           note     |-> note]
          : <<randomDays, dueDays, items, totals>> \in
              UNION { { <<d[1], d[2], d[3], tot>> : tot \in calculateInvoiceTotals(d[3]) }
                      : d \in randomBetween(rnd.days, 0, daysDiff)
                              \X randomBetween(rnd.due, 14, 30)
                              \X UNION { generateInvoiceItems(rnd, n)
                                         : n \in randomBetween(rnd.itemCount, 1, 5) } } }

-----------------------------------------------------------------------------
(* Case-type policy engine (generator.ts, generateTransaction) *)

TestCaseTypes ==
    {"perfect_match", "discount_1_percent", "discount_2_percent", "discount_3_percent",
     "fx_gain", "fx_loss", "partial_match_no_description",
     "partial_match_amount_mismatch", "partial_match_date_far", "group_payment"}

\* rate.toFixed(4) of a 2-decimal rate held in hundredths.
rateToFixed4(rate) ==
    NatToString(rate \div 100) \o "." \o padStart(NatToString(rate % 100), 2, "0") \o "00"

\* The value generateTransaction returns for a chosen date, amount and text.
transactionResult(transactionDate, counterparty, description, amount, metadata) ==
    [transaction |-> [date         |-> formatDate(transactionDate),
                      counterparty |-> counterparty,
                      description  |-> description,
                      amount_eur   |-> amount],
     metadata    |-> metadata]

\* A variant of plainTransactions that counts the days from the invoice's due
\* date; TransactionDayOffsets must fail with it.
plainTransactionsFromDueDate(rnd, invoice, counterparty, sign, metadata, minDays, maxDays, descriptions, matching, mismatched) ==
    LET invoiceDate == newDate(invoice.dueDate)
    IN  { transactionResult(
              addDays(invoiceDate, days), counterparty, description,
              sign * invoice.total,
              [matchingFields |-> matching, mismatchedFields |-> mismatched] @@ metadata)
          : days \in randomBetween(rnd.offset, minDays, maxDays),
            description \in descriptions }

\* A variant of plainTransactions that pays the invoice's subtotal, without
\* the tax; PlainCasesUnperturbed must fail with it.
plainTransactionsNetOfTax(rnd, invoice, counterparty, sign, metadata, minDays, maxDays, descriptions, matching, mismatched) ==
    LET invoiceDate == newDate(invoice.date)
    IN  { transactionResult(
              addDays(invoiceDate, days), counterparty, description,
              sign * invoice.subtotal,
              [matchingFields |-> matching, mismatchedFields |-> mismatched] @@ metadata)
          : days \in randomBetween(rnd.offset, minDays, maxDays),
            description \in descriptions }

\* A variant of plainTransactions that always describes the payment by the
\* invoice's number, whatever descriptions it is given; DescriptionsFollowPolicy
\* must fail with it.
plainTransactionsWithReference(rnd, invoice, counterparty, sign, metadata, minDays, maxDays, descriptions, matching, mismatched) ==
    LET invoiceDate == newDate(invoice.date)
    IN  { transactionResult(
              addDays(invoiceDate, days), counterparty, invoice.number \o " Payment",
              sign * invoice.total,
              [matchingFields |-> matching, mismatchedFields |-> mismatched] @@ metadata)
          : days \in randomBetween(rnd.offset, minDays, maxDays) }

\* The cases that pay the invoice total unchanged: perfect_match,
\* partial_match_no_description, partial_match_date_far, and the group_payment
\* and default branches.
plainTransactions(rnd, invoice, counterparty, sign, metadata, minDays, maxDays, descriptions, matching, mismatched) ==
    LET invoiceDate == newDate(invoice.date)
    IN  { transactionResult(
              addDays(invoiceDate, days), counterparty, description,
              sign * invoice.total,
              [matchingFields |-> matching, mismatchedFields |-> mismatched] @@ metadata)
          : days \in randomBetween(rnd.offset, minDays, maxDays),
            description \in descriptions }

\* A variant of discountTransactions that keeps perfect_match's list of
\* matching fields, "amount" included; FieldListsFollowPolicy must fail with it.
discountTransactionsAmountMatching(rnd, invoice, counterparty, sign, metadata, factor, text, percent, reason, field) ==
    LET invoiceDate == newDate(invoice.date)
    IN  { transactionResult(
              addDays(invoiceDate, days), counterparty,
              invoice.number \o text,
              sign * rounded,
              [adjustedAmount   |-> Abs(sign * rounded),
               discountPercent  |-> percent,
               adjustmentReason |-> reason,
               matchingFields   |-> <<"counterparty", "amount", "invoice_number",
                                      "date_proximity">>,
               mismatchedFields |-> <<field>>] @@ metadata)
          : days \in randomBetween(rnd.offset, 1, 5),
            rounded \in toFixed2(invoice.total * factor, 100) }

\* The three discount cases, which differ in their literals only: the factor
\* in hundredths, the description's text, the percentage, the reason and the
\* mismatched field.
discountTransactions(rnd, invoice, counterparty, sign, metadata, factor, text, percent, reason, field) ==
    LET invoiceDate == newDate(invoice.date)
    IN  { transactionResult(
              addDays(invoiceDate, days), counterparty,
              invoice.number \o text,
              sign * rounded,
              [adjustedAmount   |-> Abs(sign * rounded),
               discountPercent  |-> percent,
               adjustmentReason |-> reason,
               matchingFields   |-> <<"counterparty", "invoice_number", "date_proximity">>,
               mismatchedFields |-> <<field>>] @@ metadata)
          : days \in randomBetween(rnd.offset, 1, 5),
            rounded \in toFixed2(invoice.total * factor, 100) }

\* Variants of fxMultiplier: one that applies the drawn rate in both
\* directions, one that mirrors it in both directions.  FxGainPolicy must fail
\* with the first, FxLossPolicy with the second.
fxMultiplierUnmirrored(dir, rate) == rate

fxMultiplierMirrored(dir, rate) == 200 - rate

\* The multiplier of an FX case in hundredths: the drawn rate for payables,
\* (2 - rate) for receivables.
fxMultiplier(dir, rate) == IF dir = "payables" THEN rate ELSE 200 - rate

\* The fx_gain and fx_loss cases, which differ in the range of the rate
\* (min and max in hundredths) and in their texts.
fxTransactions(rnd, invoice, dir, counterparty, sign, metadata, min, max, reason, field) ==
    LET invoiceDate == newDate(invoice.date)
    IN  { transactionResult(
              addDays(invoiceDate, d[1]), counterparty,
              invoice.number \o " FX Payment",
              sign * d[3],
              [adjustedAmount   |-> Abs(sign * d[3]),
               fxRate           |-> d[2],
               adjustmentReason |-> reason \o rateToFixed4(d[2]) \o ")",
               matchingFields   |-> <<"counterparty", "invoice_number">>,
               mismatchedFields |-> <<field>>] @@ metadata)
          : d \in UNION { { <<days, rate, rounded>>
                            : rounded \in toFixed2(invoice.total * fxMultiplier(dir, rate),
                                                   100) }
                          : <<days, rate>> \in randomBetween(rnd.offset, 3, 14)
                                               \X randomFloat(rnd.rate, min, max) } }

\* A variant of mismatchTransactions that stores the signed amount in the
\* metadata; MetadataAmounts must fail with it.
mismatchTransactionsSignedMetadata(rnd, invoice, counterparty, sign, metadata) ==
    LET invoiceDate == newDate(invoice.date)
    IN  { transactionResult(
              addDays(invoiceDate, d[1]), counterparty,
              invoice.number \o " Payment",
              sign * d[2],
              [adjustedAmount   |-> sign * d[2],
               adjustmentReason |-> "Unknown amount difference (possible fees or rounding)",
               matchingFields   |-> <<"counterparty", "invoice_number", "date_proximity">>,
               mismatchedFields |-> <<"amount (small unexplained difference)">>] @@ metadata)
          : d \in UNION { { <<days, rounded>>
                            : rounded \in toFixed2(invoice.total * mismatchFactor, 100) }
                          : <<days, mismatchFactor>> \in randomBetween(rnd.offset, 1, 10)
                                                         \X randomFloat(rnd.rate, 99, 101) } }

mismatchTransactions(rnd, invoice, counterparty, sign, metadata) ==
    LET invoiceDate == newDate(invoice.date)
    IN  { transactionResult(
              addDays(invoiceDate, d[1]), counterparty,
              invoice.number \o " Payment",
              sign * d[2],
              [adjustedAmount   |-> Abs(sign * d[2]),
               adjustmentReason |-> "Unknown amount difference (possible fees or rounding)",
               matchingFields   |-> <<"counterparty", "invoice_number", "date_proximity">>,
               mismatchedFields |-> <<"amount (small unexplained difference)">>] @@ metadata)
          : d \in UNION { { <<days, rounded>>
                            : rounded \in toFixed2(invoice.total * mismatchFactor, 100) }
                          : <<days, mismatchFactor>> \in randomBetween(rnd.offset, 1, 10)
                                                         \X randomFloat(rnd.rate, 99, 101) } }

\* A variant of amountSign that ignores the direction;
\* AmountSignFollowsDirection must fail with it.
amountSignLost(dir) == 1

\* const amountSign = direction === 'payables' ? -1 : 1, of generateTransaction
\* and of generateGroupPaymentTestCase.
amountSign(dir) == IF dir = "payables" THEN -1 ELSE 1

generateTransaction(rnd, invoice, type, dir) ==
    LET metadata == [originalAmount   |-> invoice.total,
                     adjustedAmount   |-> invoice.total,
                     matchingFields   |-> <<>>,
                     mismatchedFields |-> <<>>]
        counterpartyCompany == IF dir = "payables" THEN invoice.supplier ELSE invoice.customer
        allFour == <<"counterparty", "amount", "invoice_number", "date_proximity">>
    IN  UNION {
          CASE type = "perfect_match" ->
                 plainTransactions(rnd, invoice, counterparty, amountSign(dir), metadata, 1, 7,
                                   {invoice.number \o " Payment"}, allFour, <<>>)
            [] type = "discount_1_percent" ->
                 discountTransactions(rnd, invoice, counterparty, amountSign(dir), metadata,
                                      99, " Payment 1% early discount", 1,
                                      "1% early payment discount",
                                      "amount (1% discount applied)")
            [] type = "discount_2_percent" ->
                 discountTransactions(rnd, invoice, counterparty, amountSign(dir), metadata,
                                      98, " Payment 2% early discount", 2,
                                      "2% early payment discount",
                                      "amount (2% discount applied)")
            [] type = "discount_3_percent" ->
                 discountTransactions(rnd, invoice, counterparty, amountSign(dir), metadata,
                                      97, " Payment 3% early discount", 3,
                                      "3% early payment discount",
                                      "amount (3% discount applied)")
            [] type = "fx_gain" ->
                 fxTransactions(rnd, invoice, dir, counterparty, amountSign(dir), metadata,
                                95, 99, "FX gain (rate: ", "amount (FX gain)")
            [] type = "fx_loss" ->
                 fxTransactions(rnd, invoice, dir, counterparty, amountSign(dir), metadata,
                                101, 105, "FX loss (rate: ", "amount (FX loss)")
            [] type = "partial_match_no_description" ->
                 plainTransactions(rnd, invoice, counterparty, amountSign(dir), metadata, 1, 10,
                                   getRandomGenericDescription(rnd),
                                   <<"counterparty", "amount", "date_proximity">>,
                                   <<"description (no invoice number)">>)
            [] type = "partial_match_amount_mismatch" ->
                 mismatchTransactions(rnd, invoice, counterparty, amountSign(dir), metadata)
            [] type = "partial_match_date_far" ->
                 plainTransactions(rnd, invoice, counterparty, amountSign(dir), metadata, 30, 60,
                                   {invoice.number \o " Late Payment"},
                                   <<"counterparty", "amount", "invoice_number">>,
                                   <<"date (30+ days after invoice)">>)
            [] type = "group_payment" ->
                 plainTransactions(rnd, invoice, counterparty, amountSign(dir), metadata, 1, 7,
                                   {invoice.number \o " Payment"}, allFour, <<>>)
            [] OTHER ->
                 plainTransactions(rnd, invoice, counterparty, amountSign(dir), metadata, 1, 7,
                                   {invoice.number \o " Payment"}, allFour, <<>>)
          : counterparty \in getRandomNameVariation(rnd, counterpartyCompany) }

\* The uuid of the test case is not modelled.
generateTestCase(rnd, type, dir, range, ourCompany, sequence) ==
    UNION { { [type        |-> type,
               direction   |-> dir,
               invoice     |-> invoice,
               transaction |-> result.transaction,
               metadata    |-> result.metadata]
              : <<invoice, result>> \in
                  UNION { { <<inv, res>> : res \in generateTransaction(rnd, inv, type, dir) }
                          : inv \in generateInvoice(
                                rnd, range,
                                IF dir = "payables" THEN otherParty ELSE ourCompany,
                                IF dir = "payables" THEN ourCompany ELSE otherParty,
                                sequence, dir) } }
            : otherParty \in getRandomSupplier(rnd) }

-----------------------------------------------------------------------------
(* Group-payment aggregator (generator.ts, generateGroupPaymentTestCase) *)

\* The for loop that generates the group's invoices: the possible lists of
\* count invoices with the sequence numbers startingSequence, +1, ...
RECURSIVE groupInvoices(_, _, _, _, _, _, _)
groupInvoices(rnd, range, supplier, customer, startingSequence, dir, count) ==
    IF count <= 0 THEN {<<>>}
    ELSE { Append(invoices, invoice)
           : invoices \in groupInvoices(rnd, range, supplier, customer,
                                        startingSequence, dir, count - 1),
             invoice \in generateInvoice(rnd, range, supplier, customer,
                                         startingSequence + (count - 1), dir) }

\* A variant of sumTotals that pays the first invoice only; GroupAggregate
\* must fail with it.
firstTotalOnly(invoices) == invoices[1].total

\* invoices.reduce((sum, inv) => sum + inv.total, 0)
RECURSIVE sumTotals(_)
sumTotals(invoices) ==
    IF Len(invoices) = 0 THEN 0
    ELSE sumTotals(SubSeq(invoices, 1, Len(invoices) - 1)) + invoices[Len(invoices)].total

\* A variant of latestDate that keeps the first invoice's date;
\* GroupDateAfterLatestInvoice must fail with it.
firstInvoiceDate(invoices, initial) == initial

\* invoices.reduce((latest, inv) => invDate > latest ? invDate : latest, initial)
RECURSIVE latestDate(_, _)
latestDate(invoices, initial) ==
    IF Len(invoices) = 0 THEN initial
    ELSE LET latest  == latestDate(SubSeq(invoices, 1, Len(invoices) - 1), initial)
             invDate == newDate(invoices[Len(invoices)].date)
         IN  IF invDate > latest THEN invDate ELSE latest

\* A variant of invoiceNumbersOf that lists the numbers latest first;
\* GroupDescriptionAndNumbering must fail with it.
invoiceNumbersReversed(invoices) ==
    [i \in 1..Len(invoices) |-> invoices[Len(invoices) + 1 - i].number]

\* invoices.map(inv => inv.number)
invoiceNumbersOf(invoices) == [i \in 1..Len(invoices) |-> invoices[i].number]

\* The test case built from the generated invoices, a day offset, a
\* counterparty text and the rounded amounts.
groupTestCase(dir, invoices, days, counterparty, amount, rounded) ==
    [type        |-> "group_payment",
     direction   |-> dir,
     invoice     |-> invoices[1],
     invoices    |-> invoices,
     transaction |->
        [date         |-> formatDate(addDays(latestDate(invoices, newDate(invoices[1].date)),
                                             days)),
         counterparty |-> counterparty,
         description  |-> "Batch Payment: " \o join(invoiceNumbersOf(invoices), ", "),
         amount_eur   |-> amount],
     metadata    |->
        [originalAmount      |-> rounded,
         adjustedAmount      |-> rounded,
         matchingFields      |-> <<"counterparty", "total_amount", "invoice_numbers",
                                   "date_proximity">>,
         mismatchedFields    |-> <<>>,
         groupedInvoiceCount |-> Len(invoices),
         adjustmentReason    |-> "Group payment covering " \o NatToString(Len(invoices))
                                 \o " invoices"]]

\* A variant of groupCases that names the transaction after the customer in
\* both directions; CounterpartyIsKnownName must fail with it.
groupCasesNamingCustomer(rnd, dir, range, supplier, customer, startingSequence, invoiceCount) ==
    UNION { { [testCase |-> groupTestCase(dir, invoices, days, counterparty, amount, rounded),
               invoicesGenerated |-> invoiceCount]
              : days \in randomBetween(rnd.offset, 1, 7),
                counterparty \in getRandomNameVariation(rnd, customer),
                amount \in toFixed2(amountSign(dir) * sumTotals(invoices), 1),
                rounded \in toFixed2(sumTotals(invoices), 1) }
            : invoices \in groupInvoices(rnd, range, supplier, customer,
                                         startingSequence, dir, invoiceCount) }

\* The test cases of a group of invoiceCount invoices between the two parties.
groupCases(rnd, dir, range, supplier, customer, startingSequence, invoiceCount) ==
    UNION { { [testCase |-> groupTestCase(dir, invoices, days, counterparty, amount, rounded),
               invoicesGenerated |-> invoiceCount]
              : days \in randomBetween(rnd.offset, 1, 7),
                counterparty \in getRandomNameVariation(
                    rnd, IF dir = "payables" THEN supplier ELSE customer),
                amount \in toFixed2(amountSign(dir) * sumTotals(invoices), 1),
                rounded \in toFixed2(sumTotals(invoices), 1) }
            : invoices \in groupInvoices(rnd, range, supplier, customer,
                                         startingSequence, dir, invoiceCount) }

generateGroupPaymentTestCase(rnd, dir, range, ourCompany, startingSequence) ==
    UNION { groupCases(rnd, dir, range,
                       IF dir = "payables" THEN otherParty ELSE ourCompany,
                       IF dir = "payables" THEN ourCompany ELSE otherParty,
                       startingSequence, invoiceCount)
            : <<otherParty, invoiceCount>> \in
                getRandomSupplier(rnd) \X randomBetween(rnd.invoiceCount, 2, 3) }

-----------------------------------------------------------------------------
(* CSV serializer (generator.ts, generateCSV) *)

\* The row of one test case.
csvRow(tc) ==
    tc.transaction.date \o ";" \o tc.transaction.counterparty \o ";"
    \o tc.transaction.description \o ";" \o numberToString(tc.transaction.amount_eur)

\* The comparator of rows.sort.
compareRows(a, b) == localeCompare(split(a, ";")[1], split(b, ";")[1])

\* A variant of sortRows that places a row before the rows that compare
\* equal to it; CsvSortedByDateStable must fail with it.
RECURSIVE sortRowsUnstable(_)
sortRowsUnstable(rows) ==
    IF Len(rows) <= 1 THEN rows
    ELSE LET front  == sortRowsUnstable(SubSeq(rows, 1, Len(rows) - 1))
             row    == rows[Len(rows)]
             before == { k \in 1..Len(front) : compareRows(front[k], row) < 0 }
             n      == IF before = {} THEN 0
                       ELSE CHOOSE k \in before : \A j \in before : j <= k
         IN  SubSeq(front, 1, n) \o <<row>> \o SubSeq(front, n + 1, Len(front))

\* Array.prototype.sort with compareRows: a stable sort, each row placed
\* after the rows that do not compare greater than it.
RECURSIVE sortRows(_)
sortRows(rows) ==
    IF Len(rows) <= 1 THEN rows
    ELSE LET front  == sortRows(SubSeq(rows, 1, Len(rows) - 1))
             row    == rows[Len(rows)]
             before == { k \in 1..Len(front) : compareRows(front[k], row) <= 0 }
             n      == IF before = {} THEN 0
                       ELSE CHOOSE k \in before : \A j \in before : j <= k
         IN  SubSeq(front, 1, n) \o <<row>> \o SubSeq(front, n + 1, Len(front))

\* A variant of generateCSV that writes the row of a group case twice;
\* CsvOneRowPerCase must fail with it.
generateCSVGroupTwice(cases) ==
    LET header == "date;counterparty;description;amount_eur"
        rows   == [i \in 1..Len(cases) |-> csvRow(cases[i])]
        groups == [i \in 1..Len(cases) |->
                     IF cases[i].type = "group_payment" THEN csvRow(cases[i]) ELSE ""]
    IN  join(<<header>> \o sortRows(rows \o SelectSeq(groups, LAMBDA r : r # "")), "\n")

generateCSV(cases) ==
    LET header == "date;counterparty;description;amount_eur"
        rows   == [i \in 1..Len(cases) |-> csvRow(cases[i])]
    IN  join(<<header>> \o sortRows(rows), "\n")

-----------------------------------------------------------------------------
(* Suite assembler (generator.ts, generateTestSuite) *)

Directions == {"payables", "receivables"}

\* One of the two parsed dates is an Invalid Date: the first formatDate of a
\* generated invoice then throws a RangeError (toISOString).
invalidDateRange == isInvalidDate(dateRange.start) \/ isInvalidDate(dateRange.end)

\* new Date(dateRange.start), new Date(dateRange.end)
parsedDateRange == [start |-> newDate(dateRange.start), end |-> newDate(dateRange.end)]

\* A variant of ourCompany that spreads the defaults over the overrides, so
\* that a default replaces the field supplied; OwnCompanyRole must fail with it.
ourCompanyDefaultsLast == DEFAULT_COMPANY @@ companyOverrides

\* { ...DEFAULT_COMPANY, ...companyOverrides }
ourCompany == companyOverrides @@ DEFAULT_COMPANY

\* A variant of nextUnit that enters the next config without testing its
\* quantity; CasesInConfigOrder must fail with it.
nextUnitUntested(cfgs, c, i) ==
    IF c > Len(cfgs) THEN <<c, 0>>
    ELSE IF i < cfgs[c].quantity THEN <<c, i>>
    ELSE <<c + 1, 0>>

\* The position of the two nested for loops at or after config c, counter i:
\* the next (config, counter) whose unit is generated, or past the last config.
RECURSIVE nextUnit(_, _, _)
nextUnit(cfgs, c, i) ==
    IF c > Len(cfgs) THEN <<c, 0>>
    ELSE IF i < cfgs[c].quantity THEN <<c, i>>
    ELSE nextUnit(cfgs, c + 1, 0)

\* The call's first statements: testCases = [], the seed of invoiceSequence.
Start(rnd) ==
    /\ pc = "start"
    /\ invoiceSequence' \in randomBetween(rnd.seed, 100, 999)
    /\ testCases' = <<>>
    /\ ci' = nextUnit(configs, 1, 0)[1]
    /\ qi' = nextUnit(configs, 1, 0)[2]
    /\ pc' = "loop"
    /\ UNCHANGED <<configs, direction, dateRange, companyOverrides, csvContent, body, response,
                   callArgs, callResult, calls>>

\* One pass of the inner loop for a simple case type.
GenerateSimple(rnd) ==
    /\ pc = "loop"
    /\ ci <= Len(configs)
    /\ ~invalidDateRange
    /\ configs[ci].type # "group_payment"
    /\ \E testCase \in generateTestCase(rnd, configs[ci].type, direction, parsedDateRange,
                                        ourCompany, invoiceSequence) :
         testCases' = Append(testCases, testCase)
    /\ invoiceSequence' = invoiceSequence + 1
    /\ ci' = nextUnit(configs, ci, qi + 1)[1]
    /\ qi' = nextUnit(configs, ci, qi + 1)[2]
    /\ UNCHANGED <<configs, direction, dateRange, companyOverrides, pc, csvContent, body,
                   response, callArgs, callResult, calls>>

\* A variant of GenerateGroup that advances the counter by one, as the simple
\* branch does; SequenceConsecutive must fail with it.
GenerateGroupAdvancingByOne(rnd) ==
    /\ pc = "loop"
    /\ ci <= Len(configs)
    /\ ~invalidDateRange
    /\ configs[ci].type = "group_payment"
    /\ \E g \in generateGroupPaymentTestCase(rnd, direction, parsedDateRange,
                                             ourCompany, invoiceSequence) :
         testCases' = Append(testCases, g.testCase)
    /\ invoiceSequence' = invoiceSequence + 1
    /\ ci' = nextUnit(configs, ci, qi + 1)[1]
    /\ qi' = nextUnit(configs, ci, qi + 1)[2]
    /\ UNCHANGED <<configs, direction, dateRange, companyOverrides, pc, csvContent, body,
                   response, callArgs, callResult, calls>>

\* One pass of the inner loop for the group type.
GenerateGroup(rnd) ==
    /\ pc = "loop"
    /\ ci <= Len(configs)
    /\ ~invalidDateRange
    /\ configs[ci].type = "group_payment"
    /\ \E g \in generateGroupPaymentTestCase(rnd, direction, parsedDateRange,
                                             ourCompany, invoiceSequence) :
         /\ testCases' = Append(testCases, g.testCase)
         /\ invoiceSequence' = invoiceSequence + g.invoicesGenerated
    /\ ci' = nextUnit(configs, ci, qi + 1)[1]
    /\ qi' = nextUnit(configs, ci, qi + 1)[2]
    /\ UNCHANGED <<configs, direction, dateRange, companyOverrides, pc, csvContent, body,
                   response, callArgs, callResult, calls>>

\* The case list sorted as generateCSV sorts the rows.
RECURSIVE sortCasesLikeRows(_)
sortCasesLikeRows(cases) ==
    IF Len(cases) <= 1 THEN cases
    ELSE LET front  == sortCasesLikeRows(SubSeq(cases, 1, Len(cases) - 1))
             case   == cases[Len(cases)]
             before == { k \in 1..Len(front) : compareRows(csvRow(front[k]), csvRow(case)) <= 0 }
             n      == IF before = {} THEN 0
                       ELSE CHOOSE k \in before : \A j \in before : j <= k
         IN  SubSeq(front, 1, n) \o <<case>> \o SubSeq(front, n + 1, Len(front))

\* A variant of Return in which the sort reorders the case list itself;
\* CsvLeavesCasesUntouched must fail with it.
ReturnSortingCases ==
    /\ pc = "loop"
    /\ ci > Len(configs)
    /\ csvContent' = generateCSV(testCases)
    /\ testCases' = sortCasesLikeRows(testCases)
    /\ pc' = "done"
    /\ UNCHANGED <<configs, direction, dateRange, companyOverrides, ci, qi,
                   invoiceSequence, body, response, callArgs, callResult, calls>>

\* After the loops: the CSV is generated and the suite returned.
Return ==
    /\ pc = "loop"
    /\ ci > Len(configs)
    /\ csvContent' = generateCSV(testCases)
    /\ pc' = "done"
    /\ UNCHANGED <<configs, direction, dateRange, companyOverrides, ci, qi,
                   invoiceSequence, testCases, body, response, callArgs,
                   callResult, calls>>

\* A pass of the inner loop with an Invalid Date in the range: generateInvoice
\* throws, generateTestSuite is left by the exception and the catch of the
\* /api/generate handler answers 500.
GenerationThrows ==
    /\ pc = "loop"
    /\ ci <= Len(configs)
    /\ invalidDateRange
    /\ response' = [status |-> 500, json |-> [error |-> "Failed to generate test cases"]]
    /\ pc' = "responded"
    /\ UNCHANGED <<configs, direction, dateRange, companyOverrides, ci, qi, invoiceSequence,
                   testCases, csvContent, body, callArgs, callResult, calls>>

-----------------------------------------------------------------------------
(* Two calls of generateTestSuite in progress (two requests being handled) *)

\* Each call has its own arguments and its own local variables; calls[r]
\* holds those of call r.  The steps are those of Start, GenerateSimple,
\* GenerateGroup and Return, taken by either call in any order.
CallIds == {1, 2}

oneCallVars ==
    <<configs, direction, dateRange, companyOverrides, pc, ci, qi, invoiceSequence,
      testCases, csvContent, body, response, callArgs, callResult>>

\* The parsed date range and the own company of a call.
parsedDateRangeOf(c) == [start |-> newDate(c.dateRange.start), end |-> newDate(c.dateRange.end)]

ourCompanyOf(c) == c.companyOverrides @@ DEFAULT_COMPANY

\* The locals of a call after testCases.push(testCase) and the loop's step.
pushed(c, testCase) ==
    [c EXCEPT !.testCases = Append(c.testCases, testCase),
              !.ci = nextUnit(c.configs, c.ci, c.qi + 1)[1],
              !.qi = nextUnit(c.configs, c.ci, c.qi + 1)[2]]

\* The test cases of the next unit of a call with the invoices each consumes.
unitsOf(rnd, c, sequence) ==
    IF c.configs[c.ci].type = "group_payment"
    THEN generateGroupPaymentTestCase(rnd, c.direction, parsedDateRangeOf(c), ourCompanyOf(c),
                                      sequence)
    ELSE { [testCase |-> testCase, invoicesGenerated |-> 1]
           : testCase \in generateTestCase(rnd, c.configs[c.ci].type, c.direction,
                                            parsedDateRangeOf(c), ourCompanyOf(c), sequence) }

StartOf(r, rnd) ==
    /\ calls[r].pc = "start"
    /\ \E seed \in randomBetween(rnd.seed, 100, 999) :
          calls' = [calls EXCEPT ![r] =
                       [@ EXCEPT !.invoiceSequence = seed,
                                 !.testCases = <<>>,
                                 !.ci = nextUnit(calls[r].configs, 1, 0)[1],
                                 !.qi = nextUnit(calls[r].configs, 1, 0)[2],
                                 !.pc = "loop"]]
    /\ UNCHANGED oneCallVars

\* A variant of GenerateOf in which invoiceSequence is not a local of the
\* call but one counter of the module, kept here in the first call: every
\* call reads and advances that counter; CallsAreIndependent must fail with it.
GenerateOfSharedCounter(r, rnd) ==
    /\ calls[r].pc = "loop"
    /\ calls[r].ci <= Len(calls[r].configs)
    /\ \E u \in unitsOf(rnd, calls[r], calls[1].invoiceSequence) :
          calls' = [s \in CallIds |->
                       [(IF s = r THEN pushed(calls[s], u.testCase) ELSE calls[s])
                          EXCEPT !.invoiceSequence =
                                    IF s = 1 THEN calls[1].invoiceSequence + u.invoicesGenerated
                                    ELSE calls[s].invoiceSequence]]
    /\ UNCHANGED oneCallVars

\* One pass of the inner loop of call r.
GenerateOf(r, rnd) ==
    /\ calls[r].pc = "loop"
    /\ calls[r].ci <= Len(calls[r].configs)
    /\ \E u \in unitsOf(rnd, calls[r], calls[r].invoiceSequence) :
          calls' = [calls EXCEPT ![r] =
                       [pushed(calls[r], u.testCase) EXCEPT
                           !.invoiceSequence = calls[r].invoiceSequence + u.invoicesGenerated]]
    /\ UNCHANGED oneCallVars

ReturnOf(r) ==
    /\ calls[r].pc = "loop"
    /\ calls[r].ci > Len(calls[r].configs)
    /\ calls' = [calls EXCEPT ![r] = [@ EXCEPT !.csvContent = generateCSV(calls[r].testCases),
                                               !.pc = "done"]]
    /\ UNCHANGED oneCallVars

-----------------------------------------------------------------------------
(* PDF data converter (generator.ts, invoiceToPDFData) *)

\* s.replace(/\D/g, ''): the digits of s, in order.
RECURSIVE removeNonDigits(_)
removeNonDigits(s) ==
    IF Len(s) = 0 THEN ""
    ELSE (IF isDigit(Head(s)) THEN Head(s) ELSE "") \o removeNonDigits(Tail(s))

\* parseInt(s, 10) of a text of decimal digits: NaN for the empty text,
\* otherwise the number the digits write.  A JS number that may be NaN is
\* the record [isNaN, value].
parseInt(s) ==
    IF Len(s) = 0 THEN [isNaN |-> TRUE, value |-> 0]
    ELSE [isNaN |-> FALSE, value |-> parseDigits(s)]

\* The data handed to the PDF package.  items is the invoice's own list.
invoiceToPDFData(invoice) ==
    LET invoiceNumber == parseInt(removeNonDigits(invoice.number))
    IN  [company  |-> [logo    |-> "",
                       name    |-> invoice.supplier.name,
                       address |-> invoice.supplier.address,
                       phone   |-> invoice.supplier.phone,
                       email   |-> invoice.supplier.email,
                       website |-> invoice.supplier.website,
                       bank    |-> invoice.supplier.bankName \o "\nIBAN: "
                                   \o invoice.supplier.iban \o "\nVAT ID: "
                                   \o invoice.supplier.vatId],
         customer |-> [name    |-> invoice.customer.name,
                       address |-> invoice.customer.address,
                       phone   |-> invoice.customer.phone,
                       email   |-> invoice.customer.email],
         invoice  |-> [number   |-> invoiceNumber,
                       date     |-> invoice.date,
                       dueDate  |-> invoice.dueDate,
                       status   |-> "Due",
                       locale   |-> "en-US",
                       currency |-> invoice.currency],
         items    |-> invoice.items,
         qr       |-> [data  |-> "Invoice: " \o invoice.number \o "\nAmount: "
                                 \o invoice.currency \o " " \o numberToString(invoice.total)
                                 \o "\nIBAN: " \o invoice.supplier.iban,
                       width |-> 100],
         note     |-> invoice.note]

\* A variant of the call below that normalises the invoice it is given,
\* storing the digits of the number back into it; InvoiceNotMutated must
\* fail with it.
CallInvoiceToPDFDataInPlace ==
    /\ pc = "call"
    /\ callResult' = invoiceToPDFData(callArgs.invoice)
    /\ callArgs' = [invoice |-> [callArgs.invoice EXCEPT
                                   !.number = removeNonDigits(callArgs.invoice.number)]]
    /\ pc' = "returned"
    /\ UNCHANGED <<configs, direction, dateRange, companyOverrides, ci, qi, invoiceSequence,
                   testCases, csvContent, body, response, calls>>

\* invoiceToPDFData(invoice) applied on its own: it reads the invoice and
\* assigns to none of its fields.
CallInvoiceToPDFData ==
    /\ pc = "call"
    /\ callResult' = invoiceToPDFData(callArgs.invoice)
    /\ pc' = "returned"
    /\ UNCHANGED <<configs, direction, dateRange, companyOverrides, ci, qi, invoiceSequence,
                   testCases, csvContent, body, response, callArgs, calls>>

-----------------------------------------------------------------------------
(* Functions applied on their own *)

\* generateCompany() applied on its own.
CallGenerateCompany(rnd) ==
    /\ pc = "call"
    /\ callResult' \in generateCompany(rnd)
    /\ pc' = "returned"
    /\ UNCHANGED <<configs, direction, dateRange, companyOverrides, ci, qi, invoiceSequence,
                   testCases, csvContent, body, response, callArgs, calls>>

-----------------------------------------------------------------------------
(* HTTP worker (worker/index.ts, POST /api/generate) *)

\* !value for an optional text or list of the request: absent or empty.
isFalsy(record, key) == key \notin DOMAIN record \/ Len(record[key]) = 0

\* The handler up to the call of generateTestSuite: the two validations, the
\* default of the direction and the arguments of the call.
PostApiGenerate ==
    /\ pc = "request"
    /\ IF isFalsy(body, "cases")
       THEN /\ response' = [status |-> 400, json |-> [error |-> "No test cases specified"]]
            /\ pc' = "responded"
            /\ UNCHANGED <<configs, direction, dateRange, companyOverrides>>
       ELSE IF \/ "dateRange" \notin DOMAIN body
               \/ isFalsy(body.dateRange, "start")
               \/ isFalsy(body.dateRange, "end")
       THEN /\ response' = [status |-> 400, json |-> [error |-> "Date range is required"]]
            /\ pc' = "responded"
            /\ UNCHANGED <<configs, direction, dateRange, companyOverrides>>
       ELSE /\ configs' = body.cases
            /\ direction' = (IF isFalsy(body, "direction") THEN "payables" ELSE body.direction)
            /\ dateRange' = body.dateRange
            /\ companyOverrides' = (IF "myCompany" \in DOMAIN body THEN body.myCompany
                                                                   ELSE [f \in {} |-> ""])
            /\ response' = response
            /\ pc' = "start"
    /\ UNCHANGED <<ci, qi, invoiceSequence, testCases, csvContent, body, callArgs, callResult,
                   calls>>

\* return c.json(testSuite); the id and createdAt of the suite are not modelled.
RespondWithSuite ==
    /\ pc = "done"
    /\ response' = [status |-> 200,
                    json   |-> [direction |-> direction, cases |-> testCases,
                                csvContent |-> csvContent]]
    /\ pc' = "responded"
    /\ UNCHANGED <<configs, direction, dateRange, companyOverrides, ci, qi, invoiceSequence,
                   testCases, csvContent, body, callArgs, callResult, calls>>

-----------------------------------------------------------------------------
(* Specifications *)

\* The sampled outcomes of the random source, in thousandths, per call site.
\* One-unit requests: both ends of every range that a policy reads, every rate.
RndUnit ==
    [seed |-> {0, 999}, country |-> {0}, style |-> {0, 999}, word |-> {0}, legal |-> {0},
     useName |-> {0, 999}, variation |-> {0, 999}, simple |-> {0},
     days |-> {0, 999}, due |-> {0}, itemCount |-> {0},
     catalog |-> {0}, product |-> {999}, category |-> {0}, basePrice |-> {0},
     quantity |-> {0}, priceVariation |-> {0, 250}, tax |-> {0, 999},
     offset |-> {0, 999}, rate |-> {0, 250, 500, 750, 999}, generic |-> {0, 999},
     invoiceCount |-> {0, 999}]

\* One-unit group requests: as RndUnit with untaxed items, to bound the
\* number of invoice lists.
RndGroup == [RndUnit EXCEPT !.tax = {0}]

\* Multi-unit requests: the first outcome of every draw, the largest seed.
RndSuite ==
    [seed |-> {999}, country |-> {0}, style |-> {0}, word |-> {0}, legal |-> {0},
     useName |-> {0}, variation |-> {0}, simple |-> {0},
     days |-> {0}, due |-> {0}, itemCount |-> {0},
     catalog |-> {0}, product |-> {0}, category |-> {0}, basePrice |-> {0},
     quantity |-> {0}, priceVariation |-> {0}, tax |-> {0},
     offset |-> {0}, rate |-> {0}, generic |-> {0}, invoiceCount |-> {0}]

\* The case types of the multi-unit requests.
SuiteTypes == {"perfect_match", "partial_match_date_far", "group_payment"}

\* The lists of at most n configs over SuiteTypes with quantities 0..MaxQuantity.
RECURSIVE ConfigLists(_)
ConfigLists(n) ==
    IF n = 0 THEN {<<>>}
    ELSE ConfigLists(n - 1)
         \cup { Append(l, [type |-> t, quantity |-> q])
                : l \in { x \in ConfigLists(n - 1) : Len(x) = n - 1 },
                  t \in SuiteTypes, q \in 0..MaxQuantity }

\* A request without company overrides.
NoOverrides == [f \in {} |-> ""]

\* No request, no response, no function applied on its own.
None == <<>>

InitCommon ==
    /\ body = None
    /\ response = None
    /\ callArgs = None
    /\ callResult = None
    /\ calls = None
    /\ pc = "start"
    /\ ci = 0
    /\ qi = 0
    /\ invoiceSequence = 0
    /\ testCases = <<>>
    /\ csvContent = ""

\* A request for one unit of one case type.
Init ==
    /\ configs \in { <<[type |-> t, quantity |-> 1]>> : t \in TestCaseTypes }
    /\ direction \in Directions
    /\ dateRange = [start |-> "2025-12-30", end |-> "2025-12-31"]
    /\ companyOverrides = NoOverrides
    /\ InitCommon

Next ==
    \/ Start(RndUnit)
    \/ GenerateSimple(RndUnit)
    \/ GenerateGroup(RndGroup)
    \/ Return

Spec == Init /\ [][Next]_vars

\* A request for several units of several case types.
InitSuite ==
    /\ configs \in ConfigLists(MaxConfigs)
    /\ direction \in Directions
    /\ dateRange = [start |-> "2025-12-31", end |-> "2025-12-31"]
    /\ companyOverrides = NoOverrides
    /\ InitCommon

NextSuite ==
    \/ Start(RndSuite)
    \/ GenerateSimple(RndSuite)
    \/ GenerateGroup(RndSuite)
    \/ Return

SpecSuite == InitSuite /\ [][NextSuite]_vars

\* Requests that mix simple and group cases, with both group sizes and both
\* ends of the seed.
RndSequence == [RndSuite EXCEPT !.seed = {0, 999}, !.invoiceCount = {0, 999}]

SequenceTypes == {"perfect_match", "group_payment"}

\* The lists of at most n single-unit configs over SequenceTypes: every order
\* of simple and group units.
RECURSIVE UnitLists(_)
UnitLists(n) ==
    IF n = 0 THEN {<<>>}
    ELSE UnitLists(n - 1)
         \cup { Append(l, [type |-> t, quantity |-> 1])
                : l \in { x \in UnitLists(n - 1) : Len(x) = n - 1 }, t \in SequenceTypes }

InitSequence ==
    /\ configs \in UnitLists(MaxUnits)
    /\ direction \in Directions
    /\ dateRange = [start |-> "2025-12-31", end |-> "2025-12-31"]
    /\ companyOverrides = NoOverrides
    /\ InitCommon

NextSequence ==
    \/ Start(RndSequence)
    \/ GenerateSimple(RndSequence)
    \/ GenerateGroup(RndSequence)
    \/ Return

SpecSequence == InitSequence /\ [][NextSequence]_vars

\* generateInvoiceNumber applied on its own, to every value the counter takes
\* in a run of up to MaxInvoices invoices: the counter starts at a seed in
\* 100..999 and the n-th invoice is numbered seed + n - 1.
NumberYears == {2025, 2026}

NumberSequences == 100..(999 + MaxInvoices - 1)

InitNumber ==
    /\ configs = <<>>
    /\ direction \in Directions
    /\ dateRange = [start |-> "2025-12-31", end |-> "2025-12-31"]
    /\ companyOverrides = NoOverrides
    /\ body = None
    /\ response = None
    /\ callArgs \in [year : NumberYears, sequence : NumberSequences]
    /\ callResult = None
    /\ calls = None
    /\ pc = "call"
    /\ ci = 1
    /\ qi = 0
    /\ invoiceSequence = 0
    /\ testCases = <<>>
    /\ csvContent = ""

CallGenerateInvoiceNumber ==
    /\ pc = "call"
    /\ callResult' = generateInvoiceNumber(callArgs.year, callArgs.sequence, direction)
    /\ pc' = "returned"
    /\ UNCHANGED <<configs, direction, dateRange, companyOverrides, ci, qi, invoiceSequence,
                   testCases, csvContent, body, response, callArgs, calls>>

NextNumber == CallGenerateInvoiceNumber

SpecNumber == InitNumber /\ [][NextNumber]_vars

\* generateInvoice applied on its own to date ranges with start <= end that
\* begin before the end of February of a leap year, mid-year and before the
\* end of a year.
RangeStarts == {"2024-02-27", "2025-06-14", "2025-12-29"}

DateRanges ==
    { [start |-> s, end |-> formatDate(addDays(newDate(s), n))]
      : s \in RangeStarts, n \in 0..MaxRangeDays }

RndInvoice ==
    [RndSuite EXCEPT !.days = {0, 250, 500, 750, 999}, !.due = {0, 500, 999}]

InitInvoice ==
    /\ configs = <<>>
    /\ direction \in Directions
    /\ dateRange \in DateRanges
    /\ companyOverrides = NoOverrides
    /\ body = None
    /\ response = None
    /\ callArgs = [sequence |-> 100]
    /\ callResult = None
    /\ calls = None
    /\ pc = "call"
    /\ ci = 1
    /\ qi = 0
    /\ invoiceSequence = 0
    /\ testCases = <<>>
    /\ csvContent = ""

CallGenerateInvoice(rnd) ==
    /\ pc = "call"
    /\ \E otherParty \in getRandomSupplier(rnd) :
          callResult' \in generateInvoice(
                             rnd, parsedDateRange,
                             IF direction = "payables" THEN otherParty ELSE ourCompany,
                             IF direction = "payables" THEN ourCompany ELSE otherParty,
                             callArgs.sequence, direction)
    /\ pc' = "returned"
    /\ UNCHANGED <<configs, direction, dateRange, companyOverrides, ci, qi, invoiceSequence,
                   testCases, csvContent, body, response, callArgs, calls>>

NextInvoice == CallGenerateInvoice(RndInvoice)

SpecInvoice == InitInvoice /\ [][NextInvoice]_vars

\* calculateInvoiceTotals applied on its own to the item lists that
\* generateInvoiceItems makes of two catalog products (150.00 and 25.00), two
\* price variations (0.85 and 1.00), the quantities 1 and 5, taxed or exempt.
RndTotals ==
    [RndSuite EXCEPT !.product = {150, 999}, !.priceVariation = {125, 500},
                     !.quantity = {0, 400}, !.tax = {0, 999}]

InitTotals ==
    /\ configs = <<>>
    /\ direction = "payables"
    /\ dateRange = [start |-> "2025-12-31", end |-> "2025-12-31"]
    /\ companyOverrides = NoOverrides
    /\ body = None
    /\ response = None
    /\ \E itemCount \in 1..MaxItems :
          callArgs \in { [items |-> items] : items \in generateInvoiceItems(RndTotals, itemCount) }
    /\ callResult = None
    /\ calls = None
    /\ pc = "call"
    /\ ci = 1
    /\ qi = 0
    /\ invoiceSequence = 0
    /\ testCases = <<>>
    /\ csvContent = ""

CallCalculateInvoiceTotals ==
    /\ pc = "call"
    /\ callResult' \in calculateInvoiceTotals(callArgs.items)
    /\ pc' = "returned"
    /\ UNCHANGED <<configs, direction, dateRange, companyOverrides, ci, qi, invoiceSequence,
                   testCases, csvContent, body, response, callArgs, calls>>

NextTotals == CallCalculateInvoiceTotals

SpecTotals == InitTotals /\ [][NextTotals]_vars

\* invoiceToPDFData applied on its own to generated invoices and to the same
\* invoices under the numbers a caller of /api/invoice-pdf-data can send:
\* a number of five sequence digits, texts without a digit, the empty text.
\* The contact fields of a generated company are faker's free text.
FakerContact ==
    [address |-> "(street), (zip) (city), (country)", phone |-> "(phone)",
     email |-> "(email)", website |-> "(url)", bankName |-> "(company) Bank",
     iban |-> "(iban)", vatId |-> "(vat)"]

SentNumbers == {"INV-2026-10000", "DRAFT", "INV-", ""}

RndPdf == [RndSuite EXCEPT !.days = {0, 999}, !.due = {0, 999}, !.tax = {0, 999}]

PdfInvoices ==
    UNION { UNION { generateInvoice(
                        RndPdf, [start |-> newDate("2025-12-30"), end |-> newDate("2025-12-31")],
                        IF dir = "payables" THEN otherParty @@ FakerContact ELSE DEFAULT_COMPANY,
                        IF dir = "payables" THEN DEFAULT_COMPANY ELSE otherParty @@ FakerContact,
                        sequence, dir)
                    : otherParty \in getRandomSupplier(RndPdf) }
            : dir \in Directions, sequence \in {100, 999} }

InitPdf ==
    /\ configs = <<>>
    /\ direction = "payables"
    /\ dateRange = [start |-> "2025-12-30", end |-> "2025-12-31"]
    /\ companyOverrides = NoOverrides
    /\ body = None
    /\ response = None
    /\ callArgs \in { [invoice |-> invoice] : invoice \in PdfInvoices }
                    \cup { [invoice |-> [invoice EXCEPT !.number = number]]
                           : invoice \in PdfInvoices, number \in SentNumbers }
    /\ callResult = None
    /\ calls = None
    /\ pc = "call"
    /\ ci = 1
    /\ qi = 0
    /\ invoiceSequence = 0
    /\ testCases = <<>>
    /\ csvContent = ""

NextPdf == CallInvoiceToPDFData

SpecPdf == InitPdf /\ [][NextPdf]_vars

\* One-unit requests of a simple and of a group case with and without
\* overrides of the caller's own company: none, the name, the name with the
\* bank account, every field.
CompanyOverrides ==
    { NoOverrides,
      [name |-> "Your Company Name"],
      [name |-> "Your Company Ltd", bankName |-> "Your Bank", iban |-> "GB33BUKB20201555555555"],
      [name |-> "Your Company S.A.", address |-> "1 Your Street", phone |-> "+33 1 00 00",
       email |-> "you@your.company", website |-> "your.company", bankName |-> "Your Bank",
       iban |-> "FR7630006000011234567890189", vatId |-> "FR00000000000"] }

RndCompany ==
    [RndSuite EXCEPT !.seed = {0, 999}, !.style = {0, 999}, !.invoiceCount = {0, 999}]

InitCompany ==
    /\ configs \in { <<[type |-> t, quantity |-> 1]>> : t \in SequenceTypes }
    /\ direction \in Directions
    /\ dateRange = [start |-> "2025-12-31", end |-> "2025-12-31"]
    /\ companyOverrides \in CompanyOverrides
    /\ InitCommon

NextCompany ==
    \/ Start(RndCompany)
    \/ GenerateSimple(RndCompany)
    \/ GenerateGroup(RndCompany)
    \/ Return

SpecCompany == InitCompany /\ [][NextCompany]_vars

\* generateCompany applied on its own: every country, its first, middle and
\* last legal suffix, the four styles of business name with the first, the
\* middle and the last word of each list.
RndNames ==
    [RndSuite EXCEPT !.country = {0, 100, 200, 300, 400, 500, 600, 700, 800, 900},
                     !.legal = {0, 500, 999}, !.style = {0, 250, 500, 750},
                     !.word = {0, 500, 999}]

InitNames ==
    /\ configs = <<>>
    /\ direction = "payables"
    /\ dateRange = [start |-> "2025-12-31", end |-> "2025-12-31"]
    /\ companyOverrides = NoOverrides
    /\ body = None
    /\ response = None
    /\ callArgs = None
    /\ callResult = None
    /\ calls = None
    /\ pc = "call"
    /\ ci = 1
    /\ qi = 0
    /\ invoiceSequence = 0
    /\ testCases = <<>>
    /\ csvContent = ""

NextNames == CallGenerateCompany(RndNames)

SpecNames == InitNames /\ [][NextNames]_vars

\* generateInvoice applied on its own for the items: invoices of one or two
\* items with a catalog or a generated product, the smallest and the largest
\* price factor and quantity, taxed or exempt; and invoices of five items
\* of the cheapest catalog product, each of quantity 10, taxed or exempt.
RndFewItems ==
    [RndSuite EXCEPT !.itemCount = {0, 250}, !.catalog = {0, 999},
                     !.priceVariation = {0, 999}, !.quantity = {0, 999}, !.tax = {0, 999}]

RndManyItems ==
    [RndSuite EXCEPT !.itemCount = {999}, !.product = {999}, !.quantity = {999}, !.tax = {0, 999}]

InitItems ==
    /\ configs = <<>>
    /\ direction \in Directions
    /\ dateRange = [start |-> "2025-12-31", end |-> "2025-12-31"]
    /\ companyOverrides = NoOverrides
    /\ body = None
    /\ response = None
    /\ callArgs = [sequence |-> 100]
    /\ callResult = None
    /\ calls = None
    /\ pc = "call"
    /\ ci = 1
    /\ qi = 0
    /\ invoiceSequence = 0
    /\ testCases = <<>>
    /\ csvContent = ""

NextItems == CallGenerateInvoice(RndFewItems) \/ CallGenerateInvoice(RndManyItems)

SpecItems == InitItems /\ [][NextItems]_vars

\* Two calls in progress: a payables and a receivables request of at most
\* MaxCallUnits units each, simple or group, each with the smallest or the
\* largest seed.
RndCalls == [RndSuite EXCEPT !.seed = {0, 999}]

InitCalls ==
    /\ calls \in { [r \in CallIds |->
                      [configs          |-> IF r = 1 THEN l1 ELSE l2,
                       direction        |-> IF r = 1 THEN "payables" ELSE "receivables",
                       dateRange        |-> [start |-> "2025-12-31", end |-> "2025-12-31"],
                       companyOverrides |-> NoOverrides,
                       pc               |-> "start",
                       ci               |-> 1,
                       qi               |-> 0,
                       invoiceSequence  |-> 0,
                       testCases        |-> <<>>,
                       csvContent       |-> ""]]
                   : l1 \in UnitLists(MaxCallUnits), l2 \in UnitLists(MaxCallUnits) }
    /\ configs = <<>>
    /\ direction = "payables"
    /\ dateRange = [start |-> "2025-12-31", end |-> "2025-12-31"]
    /\ companyOverrides = NoOverrides
    /\ body = None
    /\ response = None
    /\ callArgs = None
    /\ callResult = None
    /\ pc = "calls"
    /\ ci = 1
    /\ qi = 0
    /\ invoiceSequence = 0
    /\ testCases = <<>>
    /\ csvContent = ""

NextCalls ==
    \E r \in CallIds :
        \/ StartOf(r, RndCalls)
        \/ GenerateOf(r, RndCalls)
        \/ ReturnOf(r)

SpecCalls == InitCalls /\ [][NextCalls]_vars

\* Requests to POST /api/generate: each of cases, direction, dateRange and
\* the two dates of the range absent or present; an empty list of cases, a
\* config of quantity 0, one simple and one group unit; an empty text, two
\* dates and a text that is no date.
Absent == [f \in {} |-> ""]

RequestCases ==
    { <<>>, <<[type |-> "perfect_match", quantity |-> 0]>>,
      <<[type |-> "perfect_match", quantity |-> 1]>>,
      <<[type |-> "group_payment", quantity |-> 1]>> }

RequestDates == {"", "2025-12-30", "2025-12-31", "tomorrow"}

RequestDateRanges ==
    { s @@ e : s \in {Absent} \cup { [start |-> d] : d \in RequestDates },
               e \in {Absent} \cup { [end |-> d] : d \in RequestDates } }

Requests ==
    { c @@ d @@ r
      : c \in {Absent} \cup { [cases |-> l] : l \in RequestCases },
        d \in {Absent} \cup { [direction |-> x] : x \in Directions },
        r \in {Absent} \cup { [dateRange |-> x] : x \in RequestDateRanges } }

InitWorker ==
    /\ body \in Requests
    /\ response = None
    /\ callArgs = None
    /\ callResult = None
    /\ calls = None
    /\ pc = "request"
    /\ configs = <<>>
    /\ direction = "payables"
    /\ dateRange = [start |-> "", end |-> ""]
    /\ companyOverrides = NoOverrides
    /\ ci = 1
    /\ qi = 0
    /\ invoiceSequence = 0
    /\ testCases = <<>>
    /\ csvContent = ""

NextWorker ==
    \/ PostApiGenerate
    \/ Start(RndSuite)
    \/ GenerateSimple(RndSuite)
    \/ GenerateGroup(RndSuite)
    \/ GenerationThrows
    \/ Return
    \/ RespondWithSuite

SpecWorker == InitWorker /\ [][NextWorker]_vars

\* Requests to POST /api/generate for one unit, with a company override
\* under customerCompany (the field of GenerationRequest and of the README),
\* under myCompany (the field the handler reads), or without one; the range
\* is one day or starts with a text that is no date.
RequestOverrides ==
    { [name |-> "Your Company Name"],
      [name |-> "Your Company Ltd", iban |-> "GB33BUKB20201555555555"] }

OverrideRequests ==
    { [cases |-> <<[type |-> t, quantity |-> 1]>>, dateRange |-> [start |-> s, end |-> "2025-12-31"]]
      @@ d @@ o
      : t \in SequenceTypes, s \in {"2025-12-31", "tomorrow"},
        d \in {Absent} \cup { [direction |-> x] : x \in Directions },
        o \in {Absent} \cup { [customerCompany |-> x] : x \in RequestOverrides }
                       \cup { [myCompany |-> x] : x \in RequestOverrides } }

InitOverride ==
    /\ body \in OverrideRequests
    /\ response = None
    /\ callArgs = None
    /\ callResult = None
    /\ calls = None
    /\ pc = "request"
    /\ configs = <<>>
    /\ direction = "payables"
    /\ dateRange = [start |-> "", end |-> ""]
    /\ companyOverrides = NoOverrides
    /\ ci = 1
    /\ qi = 0
    /\ invoiceSequence = 0
    /\ testCases = <<>>
    /\ csvContent = ""

SpecOverride == InitOverride /\ [][NextWorker]_vars

-----------------------------------------------------------------------------
(* Properties of the generated cases *)

\* The positions of the generated cases of a type.
CasesOfType(type) == { k \in 1..Len(testCases) : testCases[k].type = type }

\* amount is a whole number of cents nearest to num/den cents (den > 0).
IsRounded(amount, num, den) == 2 * Abs(amount * den - num) <= den

\* The amount has the sign of the direction and the given magnitude.
SignedAmount(tc, magnitude) ==
    tc.transaction.amount_eur = (IF tc.direction = "payables" THEN -magnitude ELSE magnitude)

\* C1: the transaction amount of every generated case, whatever its type, is
\* strictly negative when the direction is payables and strictly positive
\* when it is receivables; the invoice total is positive.
AmountSignFollowsDirection ==
    \A k \in 1..Len(testCases) :
        /\ testCases[k].direction = direction
        /\ testCases[k].invoice.total > 0
        /\ direction = "payables" => testCases[k].transaction.amount_eur < 0
        /\ direction = "receivables" => testCases[k].transaction.amount_eur > 0

\* A payables case whose policy perturbs the amount, paid with a negative amount.
PayablesMismatchIsNegative ==
    \E k \in CasesOfType("partial_match_amount_mismatch") :
        /\ direction = "payables"
        /\ testCases[k].transaction.amount_eur < 0
        /\ testCases[k].transaction.amount_eur # -testCases[k].invoice.total

\* The discount case types with their percentage k.
DiscountTypes ==
    { <<"discount_1_percent", 1>>, <<"discount_2_percent", 2>>, <<"discount_3_percent", 3>> }

\* What C2 states of one discount case tc with percentage k.
DiscountCase(tc, k) ==
    /\ IsRounded(tc.metadata.adjustedAmount, tc.invoice.total * (100 - k), 100)
    /\ SignedAmount(tc, tc.metadata.adjustedAmount)
    /\ tc.metadata.adjustedAmount > 0
    /\ tc.metadata.discountPercent = k
    /\ tc.transaction.description
         = tc.invoice.number \o " Payment " \o NatToString(k) \o "% early discount"
    /\ Len(tc.metadata.mismatchedFields) = 1
    /\ SubSeq(tc.metadata.mismatchedFields[1], 1, 6) = "amount"

\* The example of C2: a payables invoice of 10000.00 with a 2% discount is
\* paid with -9800.00.
DiscountExample(invoice) ==
    \A result \in generateTransaction(RndUnit, [invoice EXCEPT !.total = 1000000],
                                      "discount_2_percent", "payables") :
        /\ result.transaction.amount_eur = -980000
        /\ result.metadata.discountPercent = 2

\* C2: in every discount_k_percent case (k = 1, 2, 3), in either direction,
\* adjustedAmount is the invoice total times (1 - k/100) rounded to the cent,
\* the transaction amount has that magnitude and the sign of the direction,
\* discountPercent is k, the description is the invoice number followed by
\* " Payment k% early discount", and mismatchedFields has exactly one entry,
\* which names the amount.
DiscountPolicy ==
    \A d \in DiscountTypes : \A k \in CasesOfType(d[1]) :
        /\ DiscountCase(testCases[k], d[2])
        /\ direction = "payables" => DiscountExample(testCases[k].invoice)

\* A 3% discount on a total of 23.80, whose exact product 23.086 is rounded
\* up to 23.09, received.
DiscountRoundsUp ==
    \E k \in CasesOfType("discount_3_percent") :
        /\ direction = "receivables"
        /\ testCases[k].invoice.total = 2380
        /\ testCases[k].transaction.amount_eur = 2309

\* What C3 and C4 state of the amount of an FX case tc: its magnitude is the
\* total times the rate (payables) or times 2 - rate (receivables), rounded.
FxAmount(tc) ==
    LET rate == tc.metadata.fxRate
        multiplier == IF tc.direction = "payables" THEN rate ELSE 200 - rate
    IN  /\ \E magnitude \in 1..(2 * tc.invoice.total) :
              /\ IsRounded(magnitude, tc.invoice.total * multiplier, 100)
              /\ SignedAmount(tc, magnitude)
        /\ tc.metadata.adjustedAmount = Abs(tc.transaction.amount_eur)

\* C3: in every fx_gain case fxRate is a rate of two decimals between 0.95
\* and 0.99; under payables the paid magnitude is the total times the rate,
\* rounded, and is less than the total; under receivables the amount is the
\* total times (2 - rate), rounded, and is greater than the total.
FxGainPolicy ==
    \A k \in CasesOfType("fx_gain") :
        /\ testCases[k].metadata.fxRate \in 95..99
        /\ FxAmount(testCases[k])
        /\ direction = "payables"
             => Abs(testCases[k].transaction.amount_eur) < testCases[k].invoice.total
        /\ direction = "receivables"
             => testCases[k].transaction.amount_eur > testCases[k].invoice.total

\* An fx_gain at the lowest rate, received: more than the invoice total.
FxGainReceivedAtLowestRate ==
    \E k \in CasesOfType("fx_gain") :
        /\ direction = "receivables"
        /\ testCases[k].metadata.fxRate = 95
        /\ testCases[k].transaction.amount_eur > testCases[k].invoice.total

\* The example of C4: a receivables invoice of 5000.00 at the drawn rate 1.02
\* is paid with +4900.00, and that rate is drawn.
FxLossExample(invoice) ==
    LET results == generateTransaction(RndUnit, [invoice EXCEPT !.total = 500000],
                                       "fx_loss", "receivables")
    IN  /\ \E result \in results : result.metadata.fxRate = 102
        /\ \A result \in results :
              result.metadata.fxRate = 102 => result.transaction.amount_eur = 490000

\* C4: in every fx_loss case fxRate is the drawn rate, of two decimals between
\* 1.01 and 1.05; under payables the paid magnitude is the total times the
\* rate, rounded, and is greater than the total; under receivables the amount
\* is the total times (2 - rate), rounded, less than the total and positive.
FxLossPolicy ==
    \A k \in CasesOfType("fx_loss") :
        /\ testCases[k].metadata.fxRate \in 101..105
        /\ FxAmount(testCases[k])
        /\ direction = "payables"
             => Abs(testCases[k].transaction.amount_eur) > testCases[k].invoice.total
        /\ direction = "receivables"
             => /\ testCases[k].transaction.amount_eur < testCases[k].invoice.total
                /\ testCases[k].transaction.amount_eur > 0
                /\ FxLossExample(testCases[k].invoice)

\* An fx_loss at the highest rate, received: less than the invoice total.
FxLossReceivedAtHighestRate ==
    \E k \in CasesOfType("fx_loss") :
        /\ direction = "receivables"
        /\ testCases[k].metadata.fxRate = 105
        /\ testCases[k].transaction.amount_eur < testCases[k].invoice.total
        /\ testCases[k].transaction.amount_eur > 0

\* The sum of the totals of a list of invoices.
RECURSIVE TotalOf(_)
TotalOf(invoices) ==
    IF invoices = <<>> THEN 0 ELSE Head(invoices).total + TotalOf(Tail(invoices))

\* The totals of the example of C5: 1000.00, 1500.50 and 999.49.
ExampleTotals == <<[total |-> 100000], [total |-> 150050], [total |-> 99949]>>

\* C5: in every group_payment case groupedInvoiceCount is 2 or 3 and is the
\* length of the case's invoices; the transaction amount has the magnitude of
\* the sum of the invoices' totals, rounded once, and the sign of the
\* direction; originalAmount and adjustedAmount are that sum; mismatchedFields
\* is empty.  Totals 1000.00, 1500.50 and 999.49 are paid with 3499.99.
GroupAggregate ==
    \A k \in CasesOfType("group_payment") :
        LET tc == testCases[k]
        IN  /\ tc.metadata.groupedInvoiceCount \in {2, 3}
            /\ tc.metadata.groupedInvoiceCount = Len(tc.invoices)
            /\ SignedAmount(tc, TotalOf(tc.invoices))
            /\ tc.metadata.originalAmount = TotalOf(tc.invoices)
            /\ tc.metadata.adjustedAmount = TotalOf(tc.invoices)
            /\ tc.metadata.mismatchedFields = <<>>
            /\ toFixed2(amountSign(direction) * sumTotals(ExampleTotals), 1)
                 = {amountSign(direction) * 349999}

\* A group of three invoices of different totals, paid with their sum.
GroupOfThreeDifferentTotals ==
    \E k \in CasesOfType("group_payment") :
        /\ Len(testCases[k].invoices) = 3
        /\ testCases[k].invoices[1].total # testCases[k].invoices[2].total
        /\ Abs(testCases[k].transaction.amount_eur) = TotalOf(testCases[k].invoices)

\* C6: in every group_payment case the transaction date is 1 to 7 days after
\* the latest issue date of the case's invoices, and so later than the issue
\* date of each of them.
GroupDateAfterLatestInvoice ==
    \A k \in CasesOfType("group_payment") :
        LET tc == testCases[k]
            transactionDate == newDate(tc.transaction.date)
        IN  /\ \E i \in 1..Len(tc.invoices) :
                  /\ \A j \in 1..Len(tc.invoices) :
                        newDate(tc.invoices[j].date) <= newDate(tc.invoices[i].date)
                  /\ transactionDate - newDate(tc.invoices[i].date) \in 1..7
            /\ \A j \in 1..Len(tc.invoices) :
                  transactionDate > newDate(tc.invoices[j].date)

\* A group whose first invoice is not its latest, paid the day after the latest.
GroupPaidDayAfterLaterInvoice ==
    \E k \in CasesOfType("group_payment") :
        /\ newDate(testCases[k].invoices[1].date) < newDate(testCases[k].invoices[2].date)
        /\ newDate(testCases[k].transaction.date)
             = newDate(testCases[k].invoices[2].date) + 1

\* The texts of a list joined with ", ".
RECURSIVE CommaSeparated(_)
CommaSeparated(texts) ==
    IF Len(texts) = 1 THEN texts[1]
    ELSE texts[1] \o ", " \o CommaSeparated(Tail(texts))

\* The number of invoices a case consumed sequence numbers for.
InvoicesOf(tc) == IF "invoices" \in DOMAIN tc THEN Len(tc.invoices) ELSE 1

\* The value of invoiceSequence when case k was generated.
RECURSIVE SequenceBefore(_)
SequenceBefore(k) ==
    IF k > Len(testCases) THEN invoiceSequence
    ELSE SequenceBefore(k + 1) - InvoicesOf(testCases[k])

\* C7: in every group_payment case the description is "Batch Payment: "
\* followed by the numbers of all its invoices in generation order, joined
\* with ", "; all its invoices have the same supplier and the same customer;
\* their sequence numbers are startingSequence, startingSequence + 1, ... in
\* that order; the case's primary invoice is the first generated one.
GroupDescriptionAndNumbering ==
    \A k \in CasesOfType("group_payment") :
        LET tc == testCases[k]
        IN  /\ tc.transaction.description
                 = "Batch Payment: "
                   \o CommaSeparated([i \in 1..Len(tc.invoices) |-> tc.invoices[i].number])
            /\ \A i \in 1..Len(tc.invoices) :
                  /\ tc.invoices[i].supplier = tc.invoices[1].supplier
                  /\ tc.invoices[i].customer = tc.invoices[1].customer
                  /\ split(tc.invoices[i].number, "-")[3]
                       = padStart(NatToString(SequenceBefore(k) + i - 1), 4, "0")
            /\ tc.invoice = tc.invoices[1]

\* A payables group of three invoices numbered from the seed 999.
GroupOfThreeNumberedFromSeed ==
    \E k \in CasesOfType("group_payment") :
        /\ testCases[k].transaction.description
             = "Batch Payment: BILL-2025-0999, BILL-2025-1000, BILL-2025-1001"
        /\ testCases[k].invoice.number = "BILL-2025-0999"

-----------------------------------------------------------------------------
(* Properties of the returned suite *)

\* The lines of the returned CSV text, and its data rows.
CsvLines == split(csvContent, "\n")

CsvRows == Tail(CsvLines)

\* The row that states the transaction of a case.
RowOf(tc) ==
    tc.transaction.date \o ";" \o tc.transaction.counterparty \o ";"
    \o tc.transaction.description \o ";" \o numberToString(tc.transaction.amount_eur)

\* C8: the first line of the CSV text of a suite is exactly
\* date;counterparty;description;amount_eur; it is followed by one row per
\* test case, a group_payment case giving one row; every row is the
\* date;counterparty;description;amount_eur of one case's transaction, the
\* rows being a permutation of the cases' transactions; n cases give n + 1
\* lines.
CsvOneRowPerCase ==
    pc = "done" =>
        LET lines    == CsvLines
            rows     == Tail(lines)
            expected == [k \in 1..Len(testCases) |-> RowOf(testCases[k])]
        IN  /\ lines[1] = "date;counterparty;description;amount_eur"
            /\ Len(lines) = Len(testCases) + 1
            /\ \A i \in 1..Len(rows) :
                  /\ Len(split(rows[i], ";")) = 4
                  /\ Cardinality({ j \in 1..Len(rows) : rows[j] = rows[i] })
                       = Cardinality({ k \in 1..Len(expected) : expected[k] = rows[i] })
            /\ \A k \in 1..Len(expected) : \E i \in 1..Len(rows) : rows[i] = expected[k]

\* A returned suite of three cases, one of them a group payment, in four lines.
CsvOfThreeCasesWithGroup ==
    /\ pc = "done"
    /\ Len(testCases) = 3
    /\ CasesOfType("group_payment") # {}
    /\ Len(CsvLines) = 4

\* The date field of a row, and whether it reads YYYY-MM-DD.
DateField(row) == split(row, ";")[1]

IsDateText(s) ==
    /\ Len(s) = 10
    /\ \A i \in 1..10 : IF i \in {5, 8} THEN charAt(s, i) = "-" ELSE isDigit(charAt(s, i))

\* C9: the data rows of the CSV are in non-decreasing order of their date
\* field, and two rows of the same date are in the order in which their
\* cases were generated.
CsvSortedByDateStable ==
    pc = "done" =>
        LET rows     == CsvRows
            dates    == [i \in 1..Len(rows) |-> DateField(rows[i])]
            expected == [k \in 1..Len(testCases) |-> RowOf(testCases[k])]
        IN  /\ \A i \in 1..Len(rows) : IsDateText(dates[i])
            /\ \A i \in 1..Len(rows) : \A j \in 1..Len(rows) :
                  i < j =>
                    /\ newDate(dates[i]) <= newDate(dates[j])
                    /\ dates[i] = dates[j]
                         => \E k \in 1..Len(expected) : \E l \in 1..Len(expected) :
                               k < l /\ expected[k] = rows[i] /\ expected[l] = rows[j]

\* A returned suite whose cases were generated out of date order and two of
\* whose rows have the same date.
CsvReorderedWithTie ==
    /\ pc = "done"
    /\ \E k \in 1..Len(testCases) : \E l \in 1..Len(testCases) :
          /\ k < l
          /\ newDate(testCases[k].transaction.date) > newDate(testCases[l].transaction.date)
    /\ \E i \in 1..Len(CsvRows) : \E j \in 1..Len(CsvRows) :
          i < j /\ DateField(CsvRows[i]) = DateField(CsvRows[j]) /\ CsvRows[i] # CsvRows[j]

\* The types of the cases a list of configs asks for, in order.
RECURSIVE ExpectedTypes(_)
ExpectedTypes(cfgs) ==
    IF cfgs = <<>> THEN <<>>
    ELSE [i \in 1..Head(cfgs).quantity |-> Head(cfgs).type] \o ExpectedTypes(Tail(cfgs))

\* The sum of the quantities of a list of configs.
RECURSIVE TotalQuantity(_)
TotalQuantity(cfgs) ==
    IF cfgs = <<>> THEN 0 ELSE Head(cfgs).quantity + TotalQuantity(Tail(cfgs))

\* C10: the cases are appended in the order of the configs, all units of one
\* config before any of the next: while the suite is generated the types of
\* its cases are a prefix of q1 times the type of c1, q2 times the type of c2,
\* ..., and the returned suite has exactly q1 + ... + qm cases of these types.
CasesInConfigOrder ==
    /\ Len(testCases) <= TotalQuantity(configs)
    /\ \A k \in 1..Len(testCases) : testCases[k].type = ExpectedTypes(configs)[k]
    /\ pc = "done" => Len(testCases) = TotalQuantity(configs)

\* A returned suite of two units of one type followed by one of another.
TwoConfigsReturned ==
    /\ pc = "done"
    /\ Len(configs) = 2
    /\ configs[1].quantity = 2
    /\ configs[2].quantity = 1
    /\ configs[1].type # configs[2].type
    /\ Len(testCases) = 3

-----------------------------------------------------------------------------
(* Properties of the invoice numbering *)

\* The invoices of a list of cases in generation order.
RECURSIVE InvoicesInOrder(_)
InvoicesInOrder(cases) ==
    IF cases = <<>> THEN <<>>
    ELSE (IF "invoices" \in DOMAIN Head(cases) THEN Head(cases).invoices
          ELSE <<Head(cases).invoice>>)
         \o InvoicesInOrder(Tail(cases))

\* The sequence number written in an invoice number.
SequenceNumberOf(invoice) == parseDigits(split(invoice.number, "-")[3])

\* C11: one counter serves the whole run; it starts at a seed between 100 and
\* 999, a simple case takes its current value and advances it by 1, a group
\* case takes the next N values and advances it by N; so the sequence numbers
\* of the run's invoices in generation order are seed, seed + 1, seed + 2, ...
\* without gap or repeat, whatever the mix and order of the case types.
SequenceConsecutive ==
    pc # "start" =>
        LET all  == InvoicesInOrder(testCases)
            seed == invoiceSequence - Len(all)
        IN  /\ seed \in 100..999
            /\ \A i \in 1..Len(all) : SequenceNumberOf(all[i]) = seed + i - 1
            /\ \A k \in 1..Len(testCases) :
                  SequenceNumberOf(testCases[k].invoice) = SequenceBefore(k)

\* A run from seed 100 of a group of three, a simple case and a group of two.
SequenceAcrossGroups ==
    /\ pc = "done"
    /\ Len(testCases) = 3
    /\ testCases[1].type = "group_payment" /\ Len(testCases[1].invoices) = 3
    /\ testCases[2].type = "perfect_match"
    /\ testCases[3].type = "group_payment" /\ Len(testCases[3].invoices) = 2
    /\ SequenceNumberOf(testCases[1].invoice) = 100
    /\ SequenceNumberOf(testCases[2].invoice) = 103
    /\ SequenceNumberOf(testCases[3].invoices[2]) = 105
    /\ invoiceSequence = 106

\* C12: every invoice number is PREFIX-YYYY-NNNN, where PREFIX is "INV" for
\* receivables and "BILL" for payables, YYYY is the year and NNNN is the
\* sequence number written as exactly four digits, whatever the size of the run.
InvoiceNumberFourDigits ==
    pc = "returned" =>
        LET parts == split(callResult, "-")
        IN  /\ Len(parts) = 3
            /\ parts[1] = (IF direction = "receivables" THEN "INV" ELSE "BILL")
            /\ parts[2] = NatToString(callArgs.year)
            /\ Len(parts[3]) = 4
            /\ \A i \in 1..Len(parts[3]) : isDigit(charAt(parts[3], i))
            /\ parseDigits(parts[3]) = callArgs.sequence

-----------------------------------------------------------------------------
(* Properties of the generated invoice *)

\* C13: for a date range with start <= end, the issue date of the invoice is
\* start plus d days with 0 <= d <= end - start, so it lies in [start, end],
\* and the due date is 14 to 30 days after the issue date.
IssueAndDueDatesInRange ==
    pc = "returned" =>
        LET start == newDate(dateRange.start)
            end   == newDate(dateRange.end)
            issue == newDate(callResult.date)
            due   == newDate(callResult.dueDate)
        IN  start <= end =>
                /\ IsDateText(callResult.date)
                /\ IsDateText(callResult.dueDate)
                /\ callResult.date = formatDate(issue)
                /\ callResult.dueDate = formatDate(due)
                /\ issue - start \in 0..(end - start)
                /\ due - issue \in 14..30

\* An invoice issued on the last day of a range that ends in the next year,
\* due 30 days later.
IssuedOnLastDayDueInThirtyDays ==
    /\ pc = "returned"
    /\ dateRange = [start |-> "2025-12-29", end |-> "2026-01-01"]
    /\ callResult.date = "2026-01-01"
    /\ callResult.dueDate = "2026-01-31"
    /\ callResult.number \in {"BILL-2026-0100", "INV-2026-0100"}

\* The sum of quantity * price over a list of items, in cents.
RECURSIVE NetOf(_)
NetOf(items) ==
    IF items = <<>> THEN 0
    ELSE Head(items).quantity * Head(items).price + NetOf(Tail(items))

\* The sum of quantity * price * tax / 100 over a list of items, in
\* hundredths of a cent.
RECURSIVE TaxOf(_)
TaxOf(items) ==
    IF items = <<>> THEN 0
    ELSE Head(items).quantity * Head(items).price * Head(items).tax + TaxOf(Tail(items))

\* C14: subtotal is the sum of quantity * price rounded to cents, taxTotal
\* the sum of quantity * price * tax / 100 rounded to cents, and total the
\* unrounded subtotal plus the unrounded tax rounded to cents, each rounded
\* on its own; subtotal + taxTotal differs from total by at most one cent.
TotalsRoundedIndependently ==
    pc = "returned" =>
        LET net == NetOf(callArgs.items)
            tax == TaxOf(callArgs.items)
        IN  /\ IsRounded(callResult.subtotal, net, 1)
            /\ IsRounded(callResult.taxTotal, tax, 100)
            /\ IsRounded(callResult.total, net * 100 + tax, 100)
            /\ Abs(callResult.subtotal + callResult.taxTotal - callResult.total) <= 1

\* One item of 127.50 taxed at 19%: the tax 24.225 is stored as 24.23 and the
\* sum 151.725 as 151.72, one cent less than subtotal + taxTotal.
TotalsOneCentApart ==
    /\ pc = "returned"
    /\ callArgs.items = <<[name |-> "IT Consulting Services", quantity |-> 1,
                           price |-> 12750, tax |-> 19]>>
    /\ callResult = [subtotal |-> 12750, taxTotal |-> 2423, total |-> 15172]

-----------------------------------------------------------------------------
(* Properties of the case-type policies *)

SimpleTypes == TestCaseTypes \ {"group_payment"}

\* The days between the invoice's date and the transaction's date.
DayOffset(tc) == newDate(tc.transaction.date) - newDate(tc.invoice.date)

\* The range of the day offset stated for a simple case type.
OffsetRange(type) ==
    CASE type = "perfect_match" -> 1..7
      [] type \in { d[1] : d \in DiscountTypes } -> 1..5
      [] type \in {"fx_gain", "fx_loss"} -> 3..14
      [] type \in {"partial_match_no_description", "partial_match_amount_mismatch"} -> 1..10
      [] type = "partial_match_date_far" -> 30..60

\* C15: the transaction of a simple case is dated after the invoice by a
\* number of days in the range of its type: 1..7 for perfect_match, 1..5 for
\* the discounts, 3..14 for the FX cases, 1..10 for no_description and
\* amount_mismatch, 30..60 for date_far.
TransactionDayOffsets ==
    \A k \in 1..Len(testCases) :
        testCases[k].type \in SimpleTypes =>
            DayOffset(testCases[k]) \in OffsetRange(testCases[k].type)

\* A date_far case whose invoice of 2025-12-31 is paid 60 days later.
DateFarPaidSixtyDaysLater ==
    \E k \in CasesOfType("partial_match_date_far") :
        /\ testCases[k].invoice.date = "2025-12-31"
        /\ testCases[k].transaction.date = "2026-03-01"
        /\ DayOffset(testCases[k]) = 60

\* The elements of a list.
Elements(list) == { list[i] : i \in 1..Len(list) }

\* The list of matching fields stated for a case type.
MatchingFieldsOf(type) ==
    CASE type = "perfect_match" ->
           <<"counterparty", "amount", "invoice_number", "date_proximity">>
      [] type \in { d[1] : d \in DiscountTypes } \cup {"partial_match_amount_mismatch"} ->
           <<"counterparty", "invoice_number", "date_proximity">>
      [] type \in {"fx_gain", "fx_loss"} ->
           <<"counterparty", "invoice_number">>
      [] type = "partial_match_no_description" ->
           <<"counterparty", "amount", "date_proximity">>
      [] type = "partial_match_date_far" ->
           <<"counterparty", "amount", "invoice_number">>
      [] type = "group_payment" ->
           <<"counterparty", "total_amount", "invoice_numbers", "date_proximity">>

\* C16: in every case matchingFields and mismatchedFields have no element in
\* common, and matchingFields is the list stated for the case's type.
FieldListsFollowPolicy ==
    \A k \in 1..Len(testCases) :
        LET metadata == testCases[k].metadata
        IN  /\ Elements(metadata.matchingFields) \cap Elements(metadata.mismatchedFields) = {}
            /\ metadata.matchingFields = MatchingFieldsOf(testCases[k].type)

\* An fx_loss case, with two matching fields and one mismatched field.
FxLossFieldLists ==
    \E k \in CasesOfType("fx_loss") :
        /\ testCases[k].metadata.matchingFields = <<"counterparty", "invoice_number">>
        /\ testCases[k].metadata.mismatchedFields = <<"amount (FX loss)">>

\* C17: the amount of every partial_match_amount_mismatch case has the
\* magnitude of the invoice total times a factor in [0.99, 1.01], rounded to
\* cents, and that magnitude differs from the invoice total.
MismatchAmountDiffers ==
    \A k \in CasesOfType("partial_match_amount_mismatch") :
        LET tc == testCases[k]
        IN  /\ \E factor \in 99..101 :
                  IsRounded(Abs(tc.transaction.amount_eur), tc.invoice.total * factor, 100)
            /\ Abs(tc.transaction.amount_eur) # tc.invoice.total

PlainTypes == {"perfect_match", "partial_match_no_description", "partial_match_date_far"}

\* The optional fields of the metadata that describe an adjustment.
AdjustmentFields == {"adjustmentReason", "discountPercent", "fxRate"}

\* C18: in a perfect_match, partial_match_no_description or
\* partial_match_date_far case the magnitude of the amount, the invoice total,
\* originalAmount and adjustedAmount are one value, and the metadata has no
\* adjustmentReason, discountPercent or fxRate.
PlainCasesUnperturbed ==
    \A k \in 1..Len(testCases) :
        testCases[k].type \in PlainTypes =>
            LET tc == testCases[k]
            IN  /\ Abs(tc.transaction.amount_eur) = tc.invoice.total
                /\ tc.metadata.originalAmount = tc.invoice.total
                /\ tc.metadata.adjustedAmount = tc.invoice.total
                /\ DOMAIN tc.metadata \cap AdjustmentFields = {}

\* A no_description case of a taxed invoice, paid in full.
TaxedInvoicePaidInFull ==
    \E k \in CasesOfType("partial_match_no_description") :
        /\ testCases[k].invoice.taxTotal > 0
        /\ testCases[k].transaction.amount_eur = testCases[k].invoice.total
        /\ DOMAIN testCases[k].metadata
             = {"originalAmount", "adjustedAmount", "matchingFields", "mismatchedFields"}

\* text occurs somewhere in s.
Contains(s, text) ==
    \E i \in 1..(Len(s) - Len(text) + 1) : SubSeq(s, i, i + Len(text) - 1) = text

\* What follows the invoice's number in the description of a simple case
\* other than partial_match_no_description.
DescriptionSuffix(type) ==
    CASE type \in {"perfect_match", "partial_match_amount_mismatch"} -> " Payment"
      [] type = "discount_1_percent" -> " Payment 1% early discount"
      [] type = "discount_2_percent" -> " Payment 2% early discount"
      [] type = "discount_3_percent" -> " Payment 3% early discount"
      [] type \in {"fx_gain", "fx_loss"} -> " FX Payment"
      [] type = "partial_match_date_far" -> " Late Payment"

\* C19: the description of a partial_match_no_description case is one of the
\* generic descriptions and does not contain the invoice's number; the
\* description of every other simple case is the invoice's number followed by
\* "Payment", "Payment k% early discount", "FX Payment" or "Late Payment",
\* according to its type.
DescriptionsFollowPolicy ==
    \A k \in 1..Len(testCases) :
        LET tc == testCases[k]
        IN  /\ tc.type = "partial_match_no_description" =>
                  /\ tc.transaction.description \in Elements(GENERIC_DESCRIPTIONS)
                  /\ ~Contains(tc.transaction.description, tc.invoice.number)
            /\ tc.type \in SimpleTypes \ {"partial_match_no_description"} =>
                  tc.transaction.description = tc.invoice.number \o DescriptionSuffix(tc.type)

\* A no_description case described as "International Payment", the last of
\* the generic descriptions.
LastGenericDescription ==
    \E k \in CasesOfType("partial_match_no_description") :
        /\ testCases[k].transaction.description = "International Payment"
        /\ testCases[k].invoice.number \in {"BILL-2025-0100", "INV-2025-0100"}

-----------------------------------------------------------------------------
(* Properties of the HTTP worker *)

\* The request has no case, or no usable date range: the range or one of its
\* dates is missing, empty or no date, or the end is before the start.
RejectableRequest ==
    \/ "cases" \notin DOMAIN body
    \/ body.cases = <<>>
    \/ "dateRange" \notin DOMAIN body
    \/ \E key \in {"start", "end"} :
          \/ key \notin DOMAIN body.dateRange
          \/ body.dateRange[key] = ""
          \/ isInvalidDate(body.dateRange[key])
    \/ newDate(body.dateRange.end) < newDate(body.dateRange.start)

\* C20: a request with an empty list of cases, a missing or invalid date
\* range, or an end before the start is answered 400 before anything is
\* generated: it never enters generateTestSuite and is never answered with a
\* suite or with 500.
BadRequestRejected ==
    RejectableRequest =>
        \/ pc = "request"
        \/ /\ pc = "responded"
           /\ response.status = 400
           /\ testCases = <<>>
           /\ invoiceSequence = 0

-----------------------------------------------------------------------------
(* Properties of the PDF data converter *)

\* C21: the number of the PDF data is guarded: for an invoice number with
\* digits it is the integer the digits write, and for an invoice number
\* without a digit it is a safe value, not an invalid number (NaN).
PdfNumberGuarded ==
    pc = "returned" =>
        LET digits == removeNonDigits(callArgs.invoice.number)
        IN  IF digits # ""
            THEN callResult.invoice.number = [isNaN |-> FALSE, value |-> parseDigits(digits)]
            ELSE ~callResult.invoice.number.isNaN

\* C22: invoiceToPDFData leaves the invoice it is given unchanged: after the
\* call every field of the invoice, its items, number, dates and totals
\* included, has the value it had before.
InvoiceNotMutated == [][pc = "call" => callArgs' = callArgs]_vars

\* A converted receivables invoice: the data carries the invoice's items and
\* the number 20250100, and the invoice still carries "INV-2025-0100".
ConvertedInvoiceKeepsNumber ==
    /\ pc = "returned"
    /\ callArgs.invoice.number = "INV-2025-0100"
    /\ callResult.invoice.number = [isNaN |-> FALSE, value |-> 20250100]
    /\ callResult.items = callArgs.invoice.items
    /\ Len(callArgs.invoice.items) >= 1

-----------------------------------------------------------------------------
(* Properties of the parties *)

\* The default company with every field of the overrides replacing the
\* default, field by field.
OwnCompany ==
    [f \in DOMAIN DEFAULT_COMPANY \cup DOMAIN companyOverrides |->
        IF f \in DOMAIN companyOverrides THEN companyOverrides[f] ELSE DEFAULT_COMPANY[f]]

\* Every invoice of a case: the case's invoice, or the invoices of a group.
InvoiceList(tc) == IF "invoices" \in DOMAIN tc THEN tc.invoices ELSE <<tc.invoice>>

\* The caller's side and the other side of an invoice of the suite.
OwnSide(invoice) == IF direction = "payables" THEN invoice.customer ELSE invoice.supplier

OtherSide(invoice) == IF direction = "payables" THEN invoice.supplier ELSE invoice.customer

\* C23: the caller's own company is the default company with every field of
\* companyOverrides replacing the default; in every invoice of a payables
\* suite, the invoices of group cases included, it is the customer and a
\* generated company is the supplier, and in every invoice of a receivables
\* suite it is the supplier and a generated company is the customer.
OwnCompanyRole ==
    \A k \in 1..Len(testCases) :
        \A i \in 1..Len(InvoiceList(testCases[k])) :
            LET invoice == InvoiceList(testCases[k])[i]
            IN  /\ OwnSide(invoice) = OwnCompany
                /\ OwnSide(testCases[k].invoice) = OwnCompany
                /\ OtherSide(invoice) \in generateCompany(RndCompany)
                /\ OtherSide(invoice) = OtherSide(testCases[k].invoice)

\* A payables group of three invoices whose customer carries the supplied
\* name and bank account and the default address.
GroupBilledToOverriddenCompany ==
    /\ direction = "payables"
    /\ companyOverrides = [name |-> "Your Company Ltd", bankName |-> "Your Bank",
                           iban |-> "GB33BUKB20201555555555"]
    /\ \E k \in CasesOfType("group_payment") :
          /\ Len(testCases[k].invoices) = 3
          /\ \A i \in 1..3 :
                /\ testCases[k].invoices[i].customer.name = "Your Company Ltd"
                /\ testCases[k].invoices[i].customer.iban = "GB33BUKB20201555555555"
                /\ testCases[k].invoices[i].customer.address = DEFAULT_COMPANY.address
                /\ "nameVariations" \in DOMAIN testCases[k].invoices[i].supplier

\* C24: a company override supplied in the body of POST /api/generate under
\* customerCompany is applied to the suite of the response: the caller's own
\* company in every invoice carries the supplied fields.
DocumentedOverrideApplied ==
    (pc = "responded" /\ response.status = 200 /\ "customerCompany" \in DOMAIN body) =>
        \A k \in 1..Len(response.json.cases) :
            \A i \in 1..Len(InvoiceList(response.json.cases[k])) :
                \A f \in DOMAIN body.customerCompany :
                    OwnSide(InvoiceList(response.json.cases[k])[i])[f] = body.customerCompany[f]

\* C25: the counterparty of every case, simple or group, is a name of the
\* generated other party (the supplier for payables, the customer for
\* receivables), never of the caller's own company: the other party has a
\* non-empty nameVariations, and the counterparty is its canonical name or a
\* member of its nameVariations.
CounterpartyIsKnownName ==
    \A k \in 1..Len(testCases) :
        LET other == OtherSide(testCases[k].invoice)
        IN  /\ other # OwnCompany
            /\ Len(other.nameVariations) > 0
            /\ testCases[k].transaction.counterparty
                 \in {other.name} \cup Elements(other.nameVariations)
            /\ testCases[k].transaction.counterparty # OwnCompany.name

\* A receivables case whose counterparty is the last name variation of the
\* customer, not its canonical name.
CounterpartyIsLastVariation ==
    /\ direction = "receivables"
    /\ \E k \in 1..Len(testCases) :
          LET customer == testCases[k].invoice.customer
          IN  /\ testCases[k].transaction.counterparty
                   = customer.nameVariations[Len(customer.nameVariations)]
              /\ testCases[k].transaction.counterparty # customer.name

\* The position of the last space of a text (0 if it has none).
LastSpace(s) ==
    IF \E i \in 1..Len(s) : charAt(s, i) = " "
    THEN CHOOSE i \in 1..Len(s) :
            /\ charAt(s, i) = " "
            /\ \A j \in (i + 1)..Len(s) : charAt(s, j) # " "
    ELSE 0

\* The base name and the legal suffix of a generated company's name: a legal
\* suffix has no space.
BaseNameOf(name) == SubSeq(name, 1, LastSpace(name) - 1)

LegalSuffixOf(name) == SubSeq(name, LastSpace(name) + 1, Len(name))

\* The upper-case first letters of the words of a base name, a word starting
\* at the start, after a space or at a capital.
InitialsOf(base) ==
    LET starts == { i \in 1..Len(base) :
                      /\ charAt(base, i) # " "
                      /\ (i = 1 \/ isUpper(charAt(base, i)) \/ charAt(base, i - 1) = " ") }
        Pick[i \in 0..Len(base)] ==
            IF i = 0 THEN ""
            ELSE Pick[i - 1] \o (IF i \in starts THEN toUpperCase(charAt(base, i)) ELSE "")
    IN  Pick[Len(base)]

\* C26: nameVariations of a generated company has no duplicate entry; it
\* contains the uppercased full name, the base name and the uppercased base
\* name; it contains the initials, alone and with the legal suffix, exactly
\* when the initials are at least two; and when the base name is longer
\* than 10 characters it contains its first 10 characters uppercased.
NameVariationsContent ==
    pc = "returned" =>
        LET list     == callResult.nameVariations
            base     == BaseNameOf(callResult.name)
            suffix   == LegalSuffixOf(callResult.name)
            abbrev   == InitialsOf(base)
        IN  /\ \A i, j \in 1..Len(list) : i # j => list[i] # list[j]
            /\ {toUpperCase(callResult.name), base, toUpperCase(base)} \subseteq Elements(list)
            /\ IF Len(abbrev) >= 2
               THEN {abbrev, abbrev \o " " \o suffix} \subseteq Elements(list)
               ELSE {abbrev, abbrev \o " " \o suffix} \cap Elements(list) = {}
            /\ Len(base) > 10 => toUpperCase(SubSeq(base, 1, 10)) \in Elements(list)

\* "TechSolutions GmbH": eight variations, the initials "TS" and the
\* truncated "TECHSOLUTI" among them.
TechSolutionsVariations ==
    /\ pc = "returned"
    /\ callResult.name = "TechSolutions GmbH"
    /\ callResult.nameVariations
         = <<"TECHSOLUTIONS GMBH", "TechSolutions", "TECHSOLUTIONS", "TS", "TS GmbH",
             "Tech Solutions", "Tech Solutions GmbH", "TECHSOLUTI">>

-----------------------------------------------------------------------------
(* Properties of two calls in progress *)

\* What a call's own suite must be, whatever the other call has done: the
\* cases are of the call's direction and of the types of its configs in
\* order, and their invoices are numbered from the call's seed without gap.
OwnSuite(c) ==
    c.pc # "start" =>
        LET all  == InvoicesInOrder(c.testCases)
            seed == c.invoiceSequence - Len(all)
        IN  /\ Len(c.testCases) <= TotalQuantity(c.configs)
            /\ c.pc = "done" => Len(c.testCases) = TotalQuantity(c.configs)
            /\ \A k \in 1..Len(c.testCases) :
                  /\ c.testCases[k].type = ExpectedTypes(c.configs)[k]
                  /\ c.testCases[k].direction = c.direction
            /\ seed \in 100..999
            /\ \A i \in 1..Len(all) :
                  /\ SequenceNumberOf(all[i]) = seed + i - 1
                  /\ split(all[i].number, "-")[1]
                       = (IF c.direction = "payables" THEN "BILL" ELSE "INV")
            /\ c.pc = "done" => Len(split(c.csvContent, "\n")) = 1 + Len(c.testCases)

\* C27: two requests handled together do not corrupt each other: however
\* the steps of the two calls of generateTestSuite are interleaved, the suite
\* of each holds only its own cases, in the order of its own configs, with
\* its own sequence numbers without gap.
CallsAreIndependent == \A r \in CallIds : OwnSuite(calls[r])

\* Both calls have returned two cases each: the first numbered from seed
\* 100 and ending with a group, the second numbered 999 and 1000.
TwoSuitesReturned ==
    /\ \A r \in CallIds : calls[r].pc = "done" /\ Len(calls[r].testCases) = 2
    /\ calls[1].testCases[1].invoice.number = "BILL-2025-0100"
    /\ calls[1].testCases[2].type = "group_payment"
    /\ calls[2].testCases[1].invoice.number = "INV-2025-0999"
    /\ calls[2].testCases[2].invoice.number = "INV-2025-1000"

-----------------------------------------------------------------------------
(* Properties of the invoice items *)

\* The base prices of the catalog and of a generated product, in whole
\* currency units.
BasePrices == { PRODUCTS[i].basePrice : i \in 1..Len(PRODUCTS) } \cup 50..5000

\* C28: a generated invoice has 1 to 5 items; each item has a quantity in
\* 1..10, a tax rate of 0 or 19 and a positive price that is a base price
\* times a factor in [0.8, 1.2], in cents; the currency is "EUR"; the total
\* is positive.
ItemsWellFormed ==
    pc = "returned" =>
        /\ Len(callResult.items) \in 1..5
        /\ \A i \in 1..Len(callResult.items) :
              LET item == callResult.items[i]
              IN  /\ item.quantity \in 1..10
                  /\ item.tax \in {0, 19}
                  /\ item.price > 0
                  /\ \E factor \in 80..120 :
                        /\ item.price % factor = 0
                        /\ item.price \div factor \in BasePrices
        /\ callResult.currency = "EUR"
        /\ callResult.total > 0

\* An invoice of five items, each of quantity 10, some taxed and some exempt.
FiveItemsOfTen ==
    /\ pc = "returned"
    /\ Len(callResult.items) = 5
    /\ \A i \in 1..5 : callResult.items[i].quantity = 10
    /\ callResult.items[1].tax = 19
    /\ callResult.items[5].tax = 0
    /\ callResult.total > callResult.subtotal

-----------------------------------------------------------------------------
(* Properties of the metadata amounts *)

\* C29: in every case of every type adjustedAmount is the magnitude of the
\* transaction amount and originalAmount is the invoice total of a simple
\* case, the sum of the invoices' totals of a group case; neither is
\* negative, in either direction.
MetadataAmounts ==
    \A k \in 1..Len(testCases) :
        LET tc == testCases[k]
        IN  /\ tc.metadata.adjustedAmount = Abs(tc.transaction.amount_eur)
            /\ tc.metadata.originalAmount = TotalOf(InvoiceList(tc))
            /\ tc.metadata.adjustedAmount >= 0
            /\ tc.metadata.originalAmount >= 0

\* A payables partial_match_amount_mismatch case: the amount is negative,
\* adjustedAmount its magnitude, which is not the invoice total.
PayablesMismatchMagnitude ==
    \E k \in CasesOfType("partial_match_amount_mismatch") :
        /\ testCases[k].direction = "payables"
        /\ testCases[k].transaction.amount_eur < 0
        /\ testCases[k].metadata.adjustedAmount = -testCases[k].transaction.amount_eur
        /\ testCases[k].metadata.adjustedAmount # testCases[k].metadata.originalAmount

-----------------------------------------------------------------------------
(* Properties of the case list of a serialized suite *)

\* C30: the step that serializes the suite to CSV changes no case, invoice
\* or transaction, and the case list it returns is in generation order: the
\* types follow the configs and the invoice numbers ascend by one.
CsvLeavesCasesUntouched ==
    [][(pc = "loop" /\ pc' = "done") =>
          /\ testCases' = testCases
          /\ [k \in 1..Len(testCases') |-> testCases'[k].type] = ExpectedTypes(configs)
          /\ LET invoices == InvoicesInOrder(testCases')
             IN  \A i \in 1..Len(invoices) :
                    SequenceNumberOf(invoices[i]) = SequenceNumberOf(invoices[1]) + i - 1]_vars

\* A returned suite whose case list is not in date order, while the first
\* row of its CSV is not the row of its first case.
CasesKeptOutOfDateOrder ==
    /\ pc = "done"
    /\ Len(testCases) >= 2
    /\ newDate(testCases[1].transaction.date) > newDate(testCases[2].transaction.date)
    /\ CsvRows[1] # RowOf(testCases[1])
    /\ \A i \in 1..(Len(CsvRows) - 1) :
          newDate(DateField(CsvRows[i])) <= newDate(DateField(CsvRows[i + 1]))

=============================================================================
